---------------------------- MODULE Spec2Model ----------------------------
(***************************************************************************)
(* Vertex Framework: Actions, the trackActionChanges trigger and the       *)
(* generic UndoAction, over a small graph store.                           *)
(*                                                                         *)
(* Values are strings that stand for JavaScript/Cypher values: "null" is   *)
(* null (an absent property), "0" is the number zero (falsy), every other  *)
(* string is a truthy value.                                               *)
(***************************************************************************)
EXTENDS Integers, Sequences, FiniteSets, TLC

VARIABLES
    graph,      \* the committed graph: nodes, relationships, id allocators
    actions,    \* committed Action nodes, in commit order (index = Action id)
    trigger,    \* "active" | "paused" | "absent" (not installed): state of the
                \* trackActionChanges trigger
    inflight,   \* open UndoAction transactions that have not committed yet
    last,       \* the latest commit, failed UndoAction or failed raw write
    pending,    \* the latest runAs call: the Actions it has not run yet (queue) and
                \* the number of its Actions that committed (done)
    movieRel,   \* Movie.rel: the cardinality of each relationship type that the
                \* Movie VNode type declares
    migrator    \* the migrations: the ids applied, in order (applied), the schema
                \* objects and bootstrap data they installed (installed), and the
                \* call in progress, if any (op)

vars == <<graph, actions, trigger, inflight, last, pending, movieRel, migrator>>

---------------------------------------------------------------------------
(* Bounds of the exploration *)

MaxActions == 3     \* committed Actions
MaxClients == 2     \* clients running an UndoAction at the same time (SpecConcurrent)
MaxPlain == 2       \* Actions run before the first UndoAction (SpecRedo)
MaxRedo == 6        \* committed Actions, UndoActions included (SpecRedo)
MaxRunAs == 2       \* Actions passed to one runAs call (SpecRunAs)

---------------------------------------------------------------------------
(* The data model *)

NULL == "null"
NodeIds == {"mcu", "gotg"}
PropNames == {"id", "name", "year", "slugId"}
RelPropNames == {"role"}
NoProps == [p \in PropNames |-> NULL]
NoRelProps == [p \in RelPropNames |-> NULL]
NoAction == 0

\* The label of each VNode type of the test project.
TypeLabel(n) == IF n = "mcu" THEN "TestMovieFranchise" ELSE "TestMovie"

AbsentNode == [exists |-> FALSE, labels |-> {}, props |-> NoProps]

EmptyGraph ==
    [nodes |-> [n \in NodeIds |-> AbsentNode],
     rels |-> {},
     nextRel |-> 1,
     used |-> {},
     slugIds |-> {}]

IsLive(g, n) == g.nodes[n].exists /\ "VNode" \in g.nodes[n].labels
IsSoftDeleted(g, n) == g.nodes[n].exists /\ "DeletedVNode" \in g.nodes[n].labels
HasLabel(g, n, l) == g.nodes[n].exists /\ l \in g.nodes[n].labels

\* Properties as Cypher sees them: only the non-null ones are stored.
Keys(props) == {p \in DOMAIN props : props[p] # NULL}

---------------------------------------------------------------------------
(* Cypher write statements, as used by the Actions of the model.  Each     *)
(* takes the transaction's working graph and gives the graph after it; a   *)
(* MATCH that matches nothing leaves the graph as it is.                   *)

\* CREATE (n:<type>:VNode {id: n, ...props})
CreateNode(g, n, props) ==
    IF n \in g.used THEN g
    ELSE [g EXCEPT !.nodes[n] = [exists |-> TRUE,
                                 labels |-> {"VNode", TypeLabel(n)},
                                 props |-> [props EXCEPT !["id"] = n]],
                   !.used = @ \cup {n}]

\* MATCH (n:<lbl> {id: n}) SET n.<p> = v     (v = null removes the property)
SetProp(g, lbl, n, p, v) ==
    IF HasLabel(g, n, lbl) THEN [g EXCEPT !.nodes[n].props[p] = v] ELSE g

\* MATCH (a:<lbl> {id: from}), (b:VNode {id: to}) CREATE (a)-[:<type> <props>]->(b)
CreateRel(g, lbl, from, type, to, props) ==
    IF HasLabel(g, from, lbl) /\ IsLive(g, to)
    THEN [g EXCEPT !.rels = @ \cup {[id |-> g.nextRel, type |-> type, from |-> from,
                                     to |-> to, props |-> props]},
                   !.nextRel = @ + 1]
    ELSE g

\* MATCH (:VNode {id: from})-[rel:<type>]->(:VNode) DELETE rel
DeleteRels(g, from, type) ==
    [g EXCEPT !.rels = {r \in @ : ~(r.from = from /\ r.type = type
                                     /\ IsLive(g, r.from) /\ IsLive(g, r.to))}]

\* MATCH (n:VNode {id: n}) SET n:DeletedVNode REMOVE n:VNode
SoftDelete(g, n) ==
    IF IsLive(g, n)
    THEN [g EXCEPT !.nodes[n].labels = (@ \ {"VNode"}) \cup {"DeletedVNode"}]
    ELSE g

\* MATCH (n:DeletedVNode {id: n}) SET n:VNode REMOVE n:DeletedVNode
UnDelete(g, n) ==
    IF IsSoftDeleted(g, n)
    THEN [g EXCEPT !.nodes[n].labels = (@ \ {"DeletedVNode"}) \cup {"VNode"}]
    ELSE g

\* MATCH (n {id: n}) DETACH DELETE n
DetachDelete(g, n) ==
    IF g.nodes[n].exists
    THEN [g EXCEPT !.nodes[n] = AbsentNode,
                   !.rels = {r \in @ : r.from # n /\ r.to # n},
                   !.slugIds = {IF s.node = n THEN [s EXCEPT !.node = NULL] ELSE s : s \in @}]
    ELSE g

\* MATCH (:<lbl> {id: from})-[rel:<type>]->() SET rel.<p> = v
SetRelProp(g, lbl, from, type, p, v) ==
    [g EXCEPT !.rels = {IF r.from = from /\ r.type = type /\ HasLabel(g, from, lbl)
                        THEN [r EXCEPT !.props[p] = v] ELSE r : r \in @}]

---------------------------------------------------------------------------
(* GenericCypherAction: "a generic action that can run arbitrary cypher".   *)
(* Its cypher is a sequence of the statements above.                        *)

Stmt(op, n) ==
    [op |-> op, n |-> n, lbl |-> "VNode", p |-> "name", v |-> NULL,
     to |-> "mcu", type |-> "FRANCHISE_IS", role |-> NULL, name |-> NULL, year |-> NULL]

ApplyStmt(g, s) ==
    CASE s.op = "createNode" ->
            CreateNode(g, s.n, [NoProps EXCEPT !["name"] = s.name, !["year"] = s.year])
      [] s.op = "setProp" -> SetProp(g, s.lbl, s.n, s.p, s.v)
      [] s.op = "createRel" ->
            CreateRel(g, s.lbl, s.n, s.type, s.to, [NoRelProps EXCEPT !["role"] = s.role])
      [] s.op = "deleteRels" -> DeleteRels(g, s.n, s.type)
      [] s.op = "softDelete" -> SoftDelete(g, s.n)
      [] s.op = "unDelete" -> UnDelete(g, s.n)
      [] s.op = "detachDelete" -> DetachDelete(g, s.n)
      [] s.op = "setRelProp" -> SetRelProp(g, s.lbl, s.n, s.type, s.p, s.v)
      [] OTHER -> g

RECURSIVE RunCypher(_, _)
RunCypher(g, cypher) ==
    IF cypher = <<>> THEN g
    ELSE RunCypher(ApplyStmt(g, Head(cypher)), Tail(cypher))

---------------------------------------------------------------------------
(* The transaction data Neo4j hands to a "before" trigger: the net change   *)
(* between the graph at the start of the transaction (g0) and the graph     *)
(* about to be committed (g1).                                              *)

RelIds(g) == {r.id : r \in g.rels}
RelById(g, id) == CHOOSE r \in g.rels : r.id = id

createdNodes(g0, g1) == {n \in NodeIds : ~g0.nodes[n].exists /\ g1.nodes[n].exists}
deletedNodes(g0, g1) == {n \in NodeIds : g0.nodes[n].exists /\ ~g1.nodes[n].exists}

\* label -> nodes, as pairs <<label, node>>
assignedLabels(g0, g1) ==
    {<<l, n>> \in {"VNode", "DeletedVNode"} \X NodeIds :
        l \in g1.nodes[n].labels \ g0.nodes[n].labels}
removedLabels(g0, g1) ==
    {<<l, n>> \in {"VNode", "DeletedVNode"} \X NodeIds :
        l \in g0.nodes[n].labels \ g1.nodes[n].labels}

\* {key, old, new, node}
assignedNodeProperties(g0, g1) ==
    {[node |-> n, key |-> p, old |-> g0.nodes[n].props[p], new |-> g1.nodes[n].props[p]] :
        <<n, p>> \in {x \in NodeIds \X PropNames :
            /\ g1.nodes[x[1]].props[x[2]] # NULL
            /\ g1.nodes[x[1]].props[x[2]] # g0.nodes[x[1]].props[x[2]]}}
\* {key, old, node}; reading .new of such an entry gives null
removedNodeProperties(g0, g1) ==
    {[node |-> n, key |-> p, old |-> g0.nodes[n].props[p], new |-> NULL] :
        <<n, p>> \in {x \in NodeIds \X PropNames :
            /\ g0.nodes[x[1]].props[x[2]] # NULL
            /\ g1.nodes[x[1]].props[x[2]] = NULL}}

createdRelationships(g0, g1) == {r \in g1.rels : r.id \notin RelIds(g0)}
deletedRelationships(g0, g1) == {r \in g0.rels : r.id \notin RelIds(g1)}

OldRelProp(g0, id, p) == IF id \in RelIds(g0) THEN RelById(g0, id).props[p] ELSE NULL
NewRelProp(g1, id, p) == IF id \in RelIds(g1) THEN RelById(g1, id).props[p] ELSE NULL

\* {key, old, new, relationship}
assignedRelationshipProperties(g0, g1) ==
    {[relationship |-> id, key |-> p, old |-> OldRelProp(g0, id, p),
      new |-> NewRelProp(g1, id, p)] :
        <<id, p>> \in {x \in RelIds(g1) \X RelPropNames :
            /\ NewRelProp(g1, x[1], x[2]) # NULL
            /\ NewRelProp(g1, x[1], x[2]) # OldRelProp(g0, x[1], x[2])}}
removedRelationshipProperties(g0, g1) ==
    {[relationship |-> id, key |-> p, old |-> OldRelProp(g0, id, p), new |-> NULL] :
        <<id, p>> \in {x \in RelIds(g0) \X RelPropNames :
            /\ OldRelProp(g0, x[1], x[2]) # NULL
            /\ NewRelProp(g1, x[1], x[2]) = NULL}}

---------------------------------------------------------------------------
(* The trackActionChanges trigger (phase "before").  `nActions` is the      *)
(* number of :Action:VNode nodes the transaction created and `links` the    *)
(* nodes the Action has a [:MODIFIED] relationship to.  The Action node,    *)
(* its PERFORMED, MODIFIED and REVERTED relationships are filtered out by   *)
(* the trigger's "<>action" conditions and are not part of g0/g1.           *)

VNodeOrDeleted(g, n) == HasLabel(g, n, "VNode") \/ HasLabel(g, n, "DeletedVNode")

\* SET action.deletedNodesCount = size([dn IN $deletedNodes WHERE ...])
TrigDeletedNodesCount(g0, g1) ==
    Cardinality({dn \in deletedNodes(g0, g1) :
        \/ <<"VNode", dn>> \in removedLabels(g0, g1)
        \/ <<"DeletedVNode", dn>> \in removedLabels(g0, g1)})

\* the :Action:VNode node that the runner creates in the transaction
ActionNode == "action"

\* $createdNodes of the transaction of an Action: the nodes its cypher created, and
\* its Action node
TxCreatedNodes(g0, g1) == createdNodes(g0, g1) \cup {ActionNode}

\* a trigger that makes a "created" entry for the Action node too: C23 does not hold
\* of it
TrigCreatedNodesUnfiltered(g0, g1) == TxCreatedNodes(g0, g1)

\* [n IN $createdNodes WHERE NOT n:Action AND NOT n:SlugId | {created: labels}]
TrigCreatedNodes(g0, g1) == {n \in TxCreatedNodes(g0, g1) : n # ActionNode}

TrigNewLabels(g0, g1) ==
    {pair \in assignedLabels(g0, g1) :
        VNodeOrDeleted(g1, pair[2]) /\ pair[2] \notin createdNodes(g0, g1)}

TrigRemovedLabels(g0, g1) ==
    {pair \in removedLabels(g0, g1) :
        VNodeOrDeleted(g1, pair[2]) /\ pair[2] \notin deletedNodes(g0, g1)}

TrigNewPropertyNodes(g0, g1) ==
    {c \in assignedNodeProperties(g0, g1) \cup removedNodeProperties(g0, g1) :
        HasLabel(g1, c.node, "VNode") /\ c.node \notin deletedNodes(g0, g1)}

TrigNewRelationships(g0, g1) ==
    {rel \in createdRelationships(g0, g1) : HasLabel(g1, rel.from, "VNode")}

\* a trigger that counts a created relationship as a modification of both of its
\* ends: C29 does not hold of it
NewRelModifiedBothEnds(rel) == {rel.from, rel.to}

\* modifiedNode: startNode(rel) -- "Creating a relationship (a)-[:REL]->(b) only
\* counts as modifying (a), not (b)"
NewRelModifiedNodes(rel) == {rel.from}

\* the properties of a deleted relationship come from $removedRelationshipProperties
TrigDeletedRelProps(g0, g1, rel) ==
    [p \in RelPropNames |->
        IF \E chg \in removedRelationshipProperties(g0, g1) :
                chg.relationship = rel.id /\ chg.key = p
        THEN (CHOOSE chg \in removedRelationshipProperties(g0, g1) :
                chg.relationship = rel.id /\ chg.key = p).old
        ELSE NULL]

TrigDeletedRelationships(g0, g1) ==
    {rel \in deletedRelationships(g0, g1) :
        /\ VNodeOrDeleted(g1, rel.from)
        /\ rel.from \notin deletedNodes(g0, g1)
        /\ rel.to \notin deletedNodes(g0, g1)}

\* TRUE when the validatePredicate of preventRelChanges is reached
TrigPreventRelChanges(g0, g1) ==
    \E c \in assignedRelationshipProperties(g0, g1) \cup removedRelationshipProperties(g0, g1) :
        /\ c.relationship \in RelIds(g1)
        /\ HasLabel(g1, RelById(g1, c.relationship).from, "VNode")
        /\ c.relationship \notin {r.id : r \in createdRelationships(g0, g1)}
        /\ c.relationship \notin {r.id : r \in deletedRelationships(g0, g1)}

\* The change details the trigger adds to the [:MODIFIED] relationship of node n
\* ("SET modRel += changeDetails"), keyed as in the flat map of the source:
\*   created, addedLabel:<l>, removedLabel:<l>, newProp:<p>/oldProp:<p>,
\*   newRel:<id>:<type> + newRelProp:<id>:<p>, deletedRel:<id>:<type> + deletedRelProp:<id>:<p>
TrigChangeDetails(g0, g1, n) ==
    [created |-> n \in TrigCreatedNodes(g0, g1),
     addedLabel |-> {pair[1] : pair \in {x \in TrigNewLabels(g0, g1) : x[2] = n}},
     removedLabel |-> {pair[1] : pair \in {x \in TrigRemovedLabels(g0, g1) : x[2] = n}},
     props |-> {[key |-> c.key, old |-> c.old, new |-> c.new] :
                    c \in {x \in TrigNewPropertyNodes(g0, g1) : x.node = n}},
     newRel |-> {[id |-> r.id, type |-> r.type, to |-> r.to, props |-> r.props] :
                    r \in {x \in TrigNewRelationships(g0, g1) : n \in NewRelModifiedNodes(x)}},
     deletedRel |-> {[id |-> r.id, type |-> r.type, to |-> r.to,
                      props |-> TrigDeletedRelProps(g0, g1, r)] :
                    r \in {x \in TrigDeletedRelationships(g0, g1) : x.from = n}}]

NoChangeDetails ==
    [created |-> FALSE, addedLabel |-> {}, removedLabel |-> {}, props |-> {},
     newRel |-> {}, deletedRel |-> {}]

\* the modifiedNode of every entry of the UNWIND
TrigModifiedNodes(g0, g1) ==
    {n \in NodeIds : TrigChangeDetails(g0, g1, n) # NoChangeDetails}

\* the messages of apoc.util.validate
OneActionError == "every data write transaction should be associated with one Action"
RelPropertyError == "Changing relationship properties is not supported"
NotMarkedError == "node was modified but not explicitly marked as modified"

\* a trigger that does not count the Action nodes: C10 does not hold of it
trackActionChangesAnyCount(g0, g1, nActions, links) ==
    IF TrigPreventRelChanges(g0, g1)
        THEN RelPropertyError
    ELSE IF \E n \in TrigModifiedNodes(g0, g1) : n \notin links
        THEN NotMarkedError
    ELSE "ok"

\* The trigger's verdict on a transaction.
trackActionChanges(g0, g1, nActions, links) ==
    IF nActions # 1 THEN OneActionError
    ELSE IF TrigPreventRelChanges(g0, g1)
        THEN RelPropertyError
    ELSE IF \E n \in TrigModifiedNodes(g0, g1) : n \notin links
        THEN NotMarkedError
    ELSE "ok"

---------------------------------------------------------------------------
(* The slugId triggers and the uniqueness constraints of the core schema.  *)
(* graph.slugIds holds the :SlugId nodes: the slugId of each and the node   *)
(* it IDENTIFIES ("null" once that node is deleted, until the SlugId is).  *)

SlugIdOf(g, n) == g.nodes[n].props["slugId"]

\* CREATE CONSTRAINT vnode_slugid_uniq FOR (v:VNode) REQUIRE v.slugId IS UNIQUE
VNodeSlugIdUnique(g) ==
    \A n, m \in NodeIds :
        (n # m /\ IsLive(g, n) /\ IsLive(g, m) /\ SlugIdOf(g, n) # NULL)
            => SlugIdOf(g, n) # SlugIdOf(g, m)

\* updateSlugIdRelation: the nodes of $assignedNodeProperties.slugId that pass its
\* WHERE
NeedsSlugId(g0, g1) ==
    {n \in NodeIds :
        /\ \E c \in assignedNodeProperties(g0, g1) : c.node = n /\ c.key = "slugId"
        /\ HasLabel(g1, n, "VNode")
        /\ SlugIdOf(g1, n) # NULL
        /\ [slugId |-> SlugIdOf(g1, n), node |-> n] \notin g1.slugIds}

\* a trigger that uses MERGE for the SlugId node, taking over the SlugId of another
\* node: C24 does not hold of it
SlugIdMerged(slugIds, slugId) == FALSE

\* CREATE (s:SlugId {slugId: n.slugId}) under slugid_slugid_uniq: "This will throw an
\* error if the slugId was previously used by another node, since the CREATE will fail"
SlugIdExists(slugIds, slugId) == \E s \in slugIds : s.slugId = slugId

\* the commit is refused by a constraint or by the CREATE of updateSlugIdRelation
SlugIdConflict(g0, g1) ==
    \/ "vnode_slugid_uniq" \in migrator.installed /\ ~VNodeSlugIdUnique(g1)
    \/ /\ "updateSlugIdRelation" \in migrator.installed
       /\ \E n \in NeedsSlugId(g0, g1) : SlugIdExists(g1.slugIds, SlugIdOf(g1, n))

\* trigger updateSlugIdRelation: CREATE (s:SlugId ...), CREATE (s)-[:IDENTIFIES]->(n)
updateSlugIdRelation(g0, g1) ==
    IF "updateSlugIdRelation" \in migrator.installed
    THEN [g1 EXCEPT !.slugIds =
            @ \cup {[slugId |-> SlugIdOf(g1, n), node |-> n] : n \in NeedsSlugId(g0, g1)}]
    ELSE g1

\* trigger deleteSlugIdRelation: "When a VNode is deleted, delete any floating slug IDs"
deleteSlugIdRelation(g0, g1) ==
    IF "deleteSlugIdRelation" \in migrator.installed /\ deletedNodes(g0, g1) # {}
    THEN [g1 EXCEPT !.slugIds = {s \in @ : s.node # NULL}]
    ELSE g1

\* the graph that is committed, after the two triggers have run on the transaction
SlugIdTriggers(g0, g1) == deleteSlugIdRelation(g0, updateSlugIdRelation(g0, g1))

ConstraintError == "Neo4jError: constraint validation failed"

---------------------------------------------------------------------------
(* getActionChanges(tx, actionId): the change set of a committed Action,   *)
(* read back from the change details on its [:MODIFIED] relationships.     *)

RelRecords(from, rs) ==
    {[rid |-> r.id, type |-> r.type, from |-> from, to |-> r.to, properties |-> r.props] :
        r \in rs}

getActionChanges(a) ==
    [deletedNodesCount |-> a.deletedNodesCount,
     createdNodes |->
        {[id |-> n,
          properties |-> [p \in PropNames |->
                IF \E c \in a.details[n].props : c.key = p
                THEN (CHOOSE c \in a.details[n].props : c.key = p).new
                ELSE NULL]] :
            n \in {x \in a.modified : a.details[x].created}},
     modifiedNodes |->
        {[id |-> n, properties |-> a.details[n].props] :
            n \in {x \in a.modified : ~a.details[x].created /\ a.details[x].props # {}}},
     createdRelationships |->
        UNION {RelRecords(n, a.details[n].newRel) : n \in a.modified},
     deletedRelationships |->
        UNION {RelRecords(n, a.details[n].deletedRel) : n \in a.modified},
     softDeletedNodes |->
        {n \in a.modified : /\ "DeletedVNode" \in a.details[n].addedLabel
                            /\ "VNode" \in a.details[n].removedLabel},
     unDeletedNodes |->
        {n \in a.modified : /\ "VNode" \in a.details[n].addedLabel
                            /\ "DeletedVNode" \in a.details[n].removedLabel}]

---------------------------------------------------------------------------
(* UndoAction.apply, step by step.  Each step takes the working graph and  *)
(* the change set; a step that can throw also says whether it throws.      *)

\* JavaScript truthiness of a property value
Truthy(v) == v \notin {NULL, "0", ""}

MinRid(rs) == CHOOSE r \in rs : \A q \in rs : r.rid <= q.rid
MinId(rs) == CHOOSE r \in rs : \A q \in rs : r.id <= q.id

\* "Restore soft deleted nodes"
UndoRestoreSoftDeleted(g, changes) ==
    [g EXCEPT !.nodes = [n \in NodeIds |->
        IF n \in changes.softDeletedNodes /\ HasLabel(g, n, "DeletedVNode")
        THEN [@[n] EXCEPT !.labels = (@ \ {"DeletedVNode"}) \cup {"VNode"}]
        ELSE @[n]]]

\* an UndoAction whose re-creation step does not require its MATCHes to find the two
\* nodes: C19 does not hold of it
RecreatableRelsUnmatched(g, changes) == changes.deletedRelationships

\* the rows of "Restore any deleted relationships": one per deletedRelationship whose
\* two MATCHes find a :VNode
RecreatableRels(g, changes) ==
    {dr \in changes.deletedRelationships : IsLive(g, dr.from) /\ IsLive(g, dr.to)}

RECURSIVE CreateRelationships(_, _)
CreateRelationships(g, drs) ==
    IF drs = {} THEN g
    ELSE LET dr == MinRid(drs)
         IN CreateRelationships(
                CreateRel(g, "VNode", dr.from, dr.type, dr.to, dr.properties),
                drs \ {dr})

UndoRecreateRelationships(g, changes) == CreateRelationships(g, RecreatableRels(g, changes))

\* an UndoAction whose re-creation step reports the conflict first: C7 does not
\* hold of it
RecreateConflictAlways(g, changes) == TRUE

RecreateConflict(g, changes) ==
    /\ changes.deletedRelationships # {}
    /\ Cardinality(RecreatableRels(g, changes)) # Cardinality(changes.deletedRelationships)

\* the rows of "Change any modified properties": one per (node, changedPropName) that
\* passes the WHERE
RevertableProps(g, changes) ==
    {row \in {[id |-> mn.id, key |-> c.key, old |-> c.old, new |-> c.new] :
                <<mn, c>> \in {x \in changes.modifiedNodes \X
                                (UNION {m.properties : m \in changes.modifiedNodes}) :
                                    x[2] \in x[1].properties}} :
        /\ IsLive(g, row.id)
        /\ \/ (row.new = NULL /\ g.nodes[row.id].props[row.key] = NULL)
           \/ (row.new # NULL /\ g.nodes[row.id].props[row.key] = row.new)}

UndoRevertProperties(g, changes) ==
    [g EXCEPT !.nodes = [n \in NodeIds |->
        [@[n] EXCEPT !.props = [p \in PropNames |->
            IF \E row \in RevertableProps(g, changes) : row.id = n /\ row.key = p
            THEN (CHOOSE row \in RevertableProps(g, changes) : row.id = n /\ row.key = p).old
            ELSE @[p]]]]]

PropertyConflict(g, changes) ==
    /\ changes.modifiedNodes # {}
    /\ Cardinality(RevertableProps(g, changes)) # Cardinality(changes.modifiedNodes)

\* "Delete any created relationships"
RelValue(cr) == [type |-> cr.type, from |-> cr.from, to |-> cr.to, properties |-> cr.properties]

MatchingRels(g, v) ==
    {rel \in g.rels : /\ rel.from = v.from /\ rel.to = v.to
                      /\ IsLive(g, rel.from) /\ IsLive(g, rel.to)
                      /\ rel.type = v.type /\ rel.props = v.properties}

\* WITH createdRelationship, head(collect(rel)) AS rel: one row per distinct
\* createdRelationship value that matched
DeletableRelGroups(g, changes) ==
    {v \in {RelValue(cr) : cr \in changes.createdRelationships} : MatchingRels(g, v) # {}}

UndoDeleteRelationships(g, changes) ==
    [g EXCEPT !.rels = @ \ {MinId(MatchingRels(g, v)) : v \in DeletableRelGroups(g, changes)}]

\* UndoAction without the count check of this step: C6 does not hold of it
DeleteRelConflictUnchecked(g, changes) == FALSE

DeleteRelConflict(g, changes) ==
    /\ changes.createdRelationships # {}
    /\ Cardinality(DeletableRelGroups(g, changes)) # Cardinality(changes.createdRelationships)

\* UndoAction without the count of the created nodes still there: C18 does not hold
\* of it
CreatedDeletedUnchecked(g, changes) == FALSE

\* "Soft delete any created nodes, but also verify that they haven't been modified"
CreatedNodesNow(g, changes) == {cn \in changes.createdNodes : IsLive(g, cn.id)}

UndoSoftDeleteCreated(g, changes) ==
    [g EXCEPT !.nodes = [n \in NodeIds |->
        IF \E cn \in CreatedNodesNow(g, changes) : cn.id = n
        THEN [@[n] EXCEPT !.labels = (@ \ {"VNode"}) \cup {"DeletedVNode"}]
        ELSE @[n]]]

CreatedDeletedConflict(g, changes) ==
    Cardinality(CreatedNodesNow(g, changes)) < Cardinality(changes.createdNodes)

\* Object.keys(currentProperties).length > Object.keys(createdProperties).length
NewPropertyConflict(g, cn) ==
    Cardinality(Keys(g.nodes[cn.id].props)) > Cardinality(Keys(cn.properties))

\* if (currentProperties[propName] ?? null !== createdValue), which JavaScript reads as
\* currentProperties[propName] ?? (null !== createdValue)
PropertyChangedTest(current, createdValue) ==
    IF current # NULL THEN Truthy(current) ELSE (NULL # createdValue)

PropertyChangedConflict(g, cn) ==
    \E propName \in Keys(cn.properties) :
        PropertyChangedTest(g.nodes[cn.id].props[propName], cn.properties[propName])

\* UndoAction without its last step: C2 does not hold of it
UndoReDeleteSkipped(g, changes) == g

\* "Re-delete un-deleted nodes"
UndoReDelete(g, changes) ==
    [g EXCEPT !.nodes = [n \in NodeIds |->
        IF n \in changes.unDeletedNodes /\ HasLabel(g, n, "VNode")
        THEN [@[n] EXCEPT !.labels = (@ \ {"VNode"}) \cup {"DeletedVNode"}]
        ELSE @[n]]]

\* an UndoAction that leaves the start nodes of the relationships out of its
\* modifiedNodes: C22 does not hold of it
UndoModifiedNodesWithoutRelationships(changes) ==
    {cn.id : cn \in changes.createdNodes}
    \cup {mn.id : mn \in changes.modifiedNodes}
    \cup changes.softDeletedNodes
    \cup changes.unDeletedNodes

\* const modifiedNodes = new Set<VNID>(); ... return {resultData: {}, modifiedNodes}
UndoModifiedNodes(changes) ==
    {cn.id : cn \in changes.createdNodes}
    \cup {cr.from : cr \in changes.createdRelationships}
    \cup {dr.from : dr \in changes.deletedRelationships}
    \cup {mn.id : mn \in changes.modifiedNodes}
    \cup changes.softDeletedNodes
    \cup changes.unDeletedNodes

\* the messages of the UndoConflictErrors
AlreadyUndoneError == "That action was already undone."
PermanentlyDeletedError == "Cannot undo an Action that permanently deleted data."
RecreateError ==
    "One of the nodes relationships deleted by that action cannot be re-created; cannot undo."
PropertyError ==
    "One of the node properties changed by that action has since been changed; cannot undo."
DeleteRelError == "One of the relationships created by that action cannot be deleted; cannot undo."
CreatedDeletedError == "One of the nodes created by that action has since been deleted; cannot undo."
NewPropertyError ==
    "One of the nodes created by that action has since been modified (new property); cannot undo."
PropertyChangedError ==
    "One of the nodes created by that action has since been modified (property changed); cannot undo."

UndoConflictErrors ==
    {AlreadyUndoneError, PermanentlyDeletedError, RecreateError, PropertyError, DeleteRelError,
     CreatedDeletedError, NewPropertyError, PropertyChangedError}

\* apply() throws msg, its transaction holding the writes made so far
Thrown(msg, g) == [error |-> msg, g |-> g, modifiedNodes |-> {}]

\* UndoAction without the reverted-by check: C3 does not hold of it
AlreadyUndoneUnchecked(prevAction) == FALSE

\* UndoAction without the permanent-deletion check: C8 does not hold of it
PermanentlyDeletedUnchecked(changes) == FALSE

\* prevAction.revertedBy !== null
AlreadyUndone(prevAction) == prevAction.revertedBy # {}

\* changes.deletedNodesCount > 0
PermanentlyDeleted(changes) == changes.deletedNodesCount > 0

\* an UndoAction that re-creates the relationships before it restores the soft-deleted
\* nodes, and soft-deletes the created nodes before it deletes their relationships:
\* C21 does not hold of it
UndoActionApplyReordered(g, acts, actionId) ==
    LET prevAction == acts[actionId]
        changes == getActionChanges(prevAction)
        g1 == UndoRecreateRelationships(g, changes)
        g2 == UndoRestoreSoftDeleted(g1, changes)
        g3 == UndoRevertProperties(g2, changes)
        g4 == UndoSoftDeleteCreated(g3, changes)
        g5 == UndoDeleteRelationships(g4, changes)
        g6 == UndoReDelete(g5, changes)
    IN  IF AlreadyUndone(prevAction)
            THEN Thrown(AlreadyUndoneError, g)
        ELSE IF PermanentlyDeleted(changes)
            THEN Thrown(PermanentlyDeletedError, g)
        ELSE IF RecreateConflict(g, changes)
            THEN Thrown(RecreateError, g1)
        ELSE IF PropertyConflict(g2, changes)
            THEN Thrown(PropertyError, g3)
        ELSE IF CreatedDeletedConflict(g3, changes)
            THEN Thrown(CreatedDeletedError, g4)
        ELSE IF DeleteRelConflict(g4, changes)
            THEN Thrown(DeleteRelError, g5)
        ELSE [error |-> "none", g |-> g6, modifiedNodes |-> UndoModifiedNodes(changes)]

\* UndoAction.apply(tx, {actionId}) on the graph g with committed Actions acts
UndoActionApply(g, acts, actionId) ==
    LET prevAction == acts[actionId]
        changes == getActionChanges(prevAction)
        g1 == UndoRestoreSoftDeleted(g, changes)
        g2 == UndoRecreateRelationships(g1, changes)
        g3 == UndoRevertProperties(g2, changes)
        g4 == UndoDeleteRelationships(g3, changes)
        g5 == UndoSoftDeleteCreated(g4, changes)
        g6 == UndoReDelete(g5, changes)
    IN  IF AlreadyUndone(prevAction)
            THEN Thrown(AlreadyUndoneError, g)
        ELSE IF PermanentlyDeleted(changes)
            THEN Thrown(PermanentlyDeletedError, g)
        ELSE IF RecreateConflict(g1, changes)
            THEN Thrown(RecreateError, g2)
        ELSE IF PropertyConflict(g2, changes)
            THEN Thrown(PropertyError, g3)
        ELSE IF DeleteRelConflict(g3, changes)
            THEN Thrown(DeleteRelError, g4)
        ELSE IF CreatedDeletedConflict(g4, changes)
            THEN Thrown(CreatedDeletedError, g5)
        ELSE IF \E cn \in changes.createdNodes : NewPropertyConflict(g4, cn)
            THEN Thrown(NewPropertyError, g5)
        ELSE IF \E cn \in changes.createdNodes : PropertyChangedConflict(g4, cn)
            THEN Thrown(PropertyChangedError, g5)
        ELSE [error |-> "none", g |-> g6, modifiedNodes |-> UndoModifiedNodes(changes)]

---------------------------------------------------------------------------
(* Validation of a declared VNode: the relationship part of                *)
(* _BaseVNodeType.validate for the types of the test project.              *)

\* enum Cardinality
ToOneRequired == ":1"
ToOneOrNone == ":0-1"
ToMany == ":*"
ToManyUnique == ":*u"
Cardinalities == {ToOneRequired, ToOneOrNone, ToMany, ToManyUnique}

\* Movie.rel.FRANCHISE_IS: {to: [MovieFranchise], cardinality: ToOneOrNone}
TestProjectRel == [relType \in {"FRANCHISE_IS"} |-> ToOneOrNone]

\* Object.keys(this.rel) and this.rel[relType].cardinality
RelTypesOf(n) == IF TypeLabel(n) = "TestMovie" THEN DOMAIN movieRel ELSE {}
CardinalityOf(relType) == movieRel[relType]
AllowedLabels(relType) ==
    IF relType = "FRANCHISE_IS" THEN {"TestMovieFranchise"}
    ELSE {"TestMovieFranchise", "TestMovie"}

\* MATCH (node:VNode {id})-[rel]->(target:VNode)
RelData(g, n) == {r \in g.rels : r.from = n /\ IsLive(g, n) /\ IsLive(g, r.to)}

\* a validate() that accepts every node: C28 does not hold of it
ValidateRelationshipsSkipped(g, n) == TRUE

ValidateRelationships(g, n) ==
    \A relType \in RelTypesOf(n) :
        LET rels == {r \in RelData(g, n) : r.type = relType}
            targetCount == Cardinality(rels)
        IN  /\ \A r \in rels : g.nodes[r.to].labels \cap AllowedLabels(relType) # {}
            /\ CASE CardinalityOf(relType) = ToOneRequired -> targetCount = 1
                 [] CardinalityOf(relType) = ToOneOrNone -> targetCount <= 1
                 [] CardinalityOf(relType) = ToManyUnique ->
                        Cardinality({r.to : r \in rels}) = targetCount
                 [] OTHER -> TRUE

---------------------------------------------------------------------------
(* What a reader sees: the live entities with their properties and the     *)
(* relationships between live entities, without store-internal ids.        *)

\* the graph without the internal ids of its relationships: every node, and how
\* many relationships there are of each value (endpoints, type, properties)
ValueOf(r) == [type |-> r.type, from |-> r.from, to |-> r.to, properties |-> r.props]

View(g) ==
    [nodes |-> g.nodes,
     rels |-> {[value |-> v, count |-> Cardinality({r \in g.rels : ValueOf(r) = v})] :
                    v \in {ValueOf(r) : r \in g.rels}}]

\* what a pull() of the VNodes shows of a view: live nodes, their properties, and
\* the relationships between live nodes
Live(view) ==
    [nodes |-> [n \in NodeIds |->
                    IF view.nodes[n].exists /\ "VNode" \in view.nodes[n].labels
                    THEN view.nodes[n] ELSE AbsentNode],
     rels |-> {c \in view.rels :
                    /\ view.nodes[c.value.from].exists
                    /\ "VNode" \in view.nodes[c.value.from].labels
                    /\ view.nodes[c.value.to].exists
                    /\ "VNode" \in view.nodes[c.value.to].labels}]

LiveView(g) == Live(View(g))

\* The entities a transaction structurally changed: node created, label added or
\* removed, property changed, outgoing relationship created or deleted.
StructurallyChanged(g0, g1) ==
    {n \in NodeIds :
        /\ g1.nodes[n].exists
        /\ \/ ~g0.nodes[n].exists
           \/ g0.nodes[n].labels # g1.nodes[n].labels
           \/ g0.nodes[n].props # g1.nodes[n].props
           \/ \E r \in createdRelationships(g0, g1) \cup deletedRelationships(g0, g1) :
                r.from = n}

---------------------------------------------------------------------------
(* The action runner: one Action, one write transaction.                   *)

\* the Action node as committed, with what the trigger attached to it
ActionRecord(type, actionId, declared, links, g0, g1) ==
    [type |-> type,
     actionId |-> actionId,
     declared |-> declared,
     modified |-> links,
     details |-> [n \in NodeIds |-> TrigChangeDetails(g0, g1, n)],
     deletedNodesCount |-> TrigDeletedNodesCount(g0, g1),
     revertedBy |-> {},
     createdEntries |-> TrigCreatedNodes(g0, g1),
     changed |-> StructurallyChanged(g0, g1),
     before |-> View(g0),
     after |-> View(g1),
     slugIds |-> SlugIdTriggers(g0, g1).slugIds]

\* MERGE (a)-[:MODIFIED]->(n) for the declared nodes that exist
ModifiedLinks(g1, declared) == {n \in declared : VNodeOrDeleted(g1, n)}

\* a write transaction that replaces the error of its code by its own: C13 does not
\* hold of it
RethrownWrapped(error) == "TransactionError"

\* try { result = await session.writeTransaction(...) } finally { session.close() }:
\* no catch, the error of the code is the error of the call
Rethrown(error) == error

\* The verdict of the runner on the result of apply(): the error that aborts the
\* transaction, or "ok".
RunnerVerdict(g0, applied) ==
    IF applied.error # "none" THEN Rethrown(applied.error)
    ELSE IF \E n \in ModifiedLinks(applied.g, applied.modifiedNodes) :
                IsLive(applied.g, n) /\ ~ValidateRelationships(applied.g, n)
        THEN "ValidationError"
    ELSE IF SlugIdConflict(g0, applied.g) THEN ConstraintError
    ELSE trackActionChanges(g0, applied.g, 1, ModifiedLinks(applied.g, applied.modifiedNodes))

\* a runner that commits the UndoAction without the REVERTED relationship: C4 does
\* not hold of it
CommittedActionsUnlinked(acts, type, actionId, record) == Append(acts, record)

\* a runner whose redo removes the REVERTED relationship of the Action it re-applies:
\* C35 does not hold of it
CommittedActionsRedoClears(acts, type, actionId, record) ==
    Append([i \in 1..Len(acts) |->
                IF type = "UndoAction" /\ i = actionId
                THEN [acts[i] EXCEPT !.revertedBy = @ \cup {Len(acts) + 1}]
                ELSE IF /\ type = "UndoAction"
                        /\ acts[actionId].type = "UndoAction"
                        /\ i = acts[actionId].actionId
                     THEN [acts[i] EXCEPT !.revertedBy = {}]
                     ELSE acts[i]],
           record)

\* the Action nodes after the commit of a new one: the new node, and for an UndoAction
\* the (newAction)-[:REVERTED]->(target) relationship
CommittedActions(acts, type, actionId, record) ==
    Append([i \in 1..Len(acts) |->
                IF type = "UndoAction" /\ i = actionId
                THEN [acts[i] EXCEPT !.revertedBy = @ \cup {Len(acts) + 1}]
                ELSE acts[i]],
           record)

Outcome(op, target, result) == [op |-> op, target |-> target, result |-> result]

\* a write transaction that keeps the writes of the code that threw: C12 does not hold
\* of it
RolledBackKeepingWrites(g0, applied) == applied.g

\* session.writeTransaction(tx => code(tx)) when code throws: the graph afterwards
RolledBack(g0, applied) == g0

\* runAction(graph, action, userId): commit, or abort leaving everything as it was
RunActionWithin(limit, type, actionId, applied) ==
    LET verdict == RunnerVerdict(graph, applied)
    IN  IF verdict = "ok"
        THEN /\ Len(actions) < limit
             /\ graph' = SlugIdTriggers(graph, applied.g)
             /\ actions' = CommittedActions(actions, type, actionId,
                    ActionRecord(type, actionId, applied.modifiedNodes,
                                 ModifiedLinks(applied.g, applied.modifiedNodes),
                                 graph, applied.g))
             /\ last' = Outcome(type, actionId, "ok")
        ELSE /\ graph' = RolledBack(graph, applied)
             /\ UNCHANGED actions
             /\ last' = IF type = "UndoAction" THEN Outcome(type, actionId, verdict) ELSE last

RunAction(type, actionId, applied) == RunActionWithin(MaxActions, type, actionId, applied)

---------------------------------------------------------------------------
(* The GenericCypherAction inputs explored: the Actions of the test        *)
(* project (CreateMovieFranchise, CreateMovie, UpdateMovie) and other      *)
(* cypher an Action may run, each with the modifiedNodes it declares.      *)

Input(cypher, modifiedNodes) == [cypher |-> cypher, modifiedNodes |-> modifiedNodes]

ActionInputs ==
    [CreateMovieFranchise |->
        Input(<<[Stmt("createNode", "mcu") EXCEPT !.name = "MCU"]>>, {"mcu"}),
     CreateMovie |->
        Input(<<[Stmt("createNode", "gotg") EXCEPT !.name = "GotG", !.year = "2014"],
                Stmt("createRel", "gotg")>>, {"gotg"}),
     UpdateMovieFranchiseNull |->
        Input(<<Stmt("deleteRels", "gotg")>>, {"gotg"}),
     UpdateMovieFranchise |->
        Input(<<Stmt("deleteRels", "gotg"), Stmt("createRel", "gotg")>>, {"gotg"}),
     UpdateMovieName |->
        Input(<<[Stmt("setProp", "gotg") EXCEPT !.v = "Vol2"]>>, {"gotg"}),
     UpdateMovieNameYear |->
        Input(<<[Stmt("setProp", "gotg") EXCEPT !.v = "Vol2"],
                [Stmt("setProp", "gotg") EXCEPT !.p = "year", !.v = "0"]>>, {"gotg"}),
     SoftDeleteMovie |->
        Input(<<Stmt("softDelete", "gotg")>>, {"gotg"}),
     SoftDeleteFranchise |->
        Input(<<Stmt("softDelete", "mcu")>>, {"mcu"}),
     UnDeleteMovie |->
        Input(<<Stmt("unDelete", "gotg")>>, {"gotg"}),
     PurgeMovie |->
        Input(<<Stmt("detachDelete", "gotg")>>, {"gotg"}),
     SetRelRole |->
        Input(<<[Stmt("setRelProp", "gotg") EXCEPT !.p = "role", !.v = "lead"]>>, {"gotg"}),
     RenameDeletedMovie |->
        Input(<<[Stmt("setProp", "gotg") EXCEPT !.lbl = "DeletedVNode", !.v = "Vol2"]>>,
              {"gotg"}),
     SoftDeleteAndRenameMovie |->
        Input(<<Stmt("softDelete", "gotg"),
                [Stmt("setProp", "gotg") EXCEPT !.lbl = "DeletedVNode", !.v = "Vol2"]>>,
              {"gotg"}),
     SetDeletedRelRole |->
        Input(<<[Stmt("setRelProp", "gotg") EXCEPT
                    !.lbl = "DeletedVNode", !.p = "role", !.v = "lead"]>>, {"gotg"}),
     UpdateMovieNameAgain |->
        Input(<<[Stmt("setProp", "gotg") EXCEPT !.v = "Vol3"]>>, {"gotg"}),
     CreateFranchiseAndMovie |->
        Input(<<[Stmt("createNode", "mcu") EXCEPT !.name = "MCU"],
                [Stmt("createNode", "gotg") EXCEPT !.name = "GotG", !.year = "2014"]>>,
              {"mcu", "gotg"}),
     LinkOnce |->
        Input(<<[Stmt("createRel", "gotg") EXCEPT !.type = "RELATED_TO"]>>, {"gotg"}),
     LinkTwice |->
        Input(<<[Stmt("createRel", "gotg") EXCEPT !.type = "RELATED_TO"],
                [Stmt("createRel", "gotg") EXCEPT !.type = "RELATED_TO"]>>, {"gotg"}),
     LinkWithRole |->
        Input(<<[Stmt("createRel", "gotg") EXCEPT !.type = "RELATED_TO", !.role = "lead"]>>,
              {"gotg"}),
     Unlink |->
        Input(<<[Stmt("deleteRels", "gotg") EXCEPT !.type = "RELATED_TO"]>>, {"gotg"}),
     UnlinkAndSoftDeleteMovie |->
        Input(<<Stmt("deleteRels", "gotg"), Stmt("softDelete", "gotg")>>, {"gotg"}),
     RenameAndSoftDeleteMovie |->
        Input(<<[Stmt("setProp", "gotg") EXCEPT !.v = "Vol2"], Stmt("softDelete", "gotg")>>,
              {"gotg"}),
     CreateMovieOnly |->
        Input(<<[Stmt("createNode", "gotg") EXCEPT !.name = "GotG", !.year = "2014"]>>,
              {"gotg"}),
     LinkFranchiseAgain |->
        Input(<<Stmt("createRel", "gotg")>>, {"gotg"}),
     LinkAndSoftDeleteFranchise |->
        Input(<<Stmt("createRel", "gotg"), Stmt("softDelete", "mcu")>>, {"gotg", "mcu"}),
     SetMovieSlug |->
        Input(<<[Stmt("setProp", "gotg") EXCEPT !.p = "slugId", !.v = "s"]>>, {"gotg"}),
     ChangeMovieSlug |->
        Input(<<[Stmt("setProp", "gotg") EXCEPT !.p = "slugId", !.v = "t"]>>, {"gotg"}),
     SetFranchiseSlug |->
        Input(<<[Stmt("setProp", "mcu") EXCEPT !.p = "slugId", !.v = "s"]>>, {"mcu"})]

InputNames ==
    {"CreateMovieFranchise", "CreateMovie", "UpdateMovieFranchiseNull", "UpdateMovieFranchise",
     "UpdateMovieName", "UpdateMovieNameYear", "SoftDeleteMovie", "SoftDeleteFranchise",
     "UnDeleteMovie", "PurgeMovie", "SetRelRole", "RenameDeletedMovie",
     "SoftDeleteAndRenameMovie"}

\* GenericCypherAction.apply: run the cypher, report the declared modifiedNodes
GenericCypherApply(g, input, modifiedNodes) ==
    [error |-> "none", g |-> RunCypher(g, input.cypher), modifiedNodes |-> modifiedNodes]

---------------------------------------------------------------------------
(* The migrations of the core schema and of the Action schema, merged in   *)
(* this order ("ES6 objects preserve string key order").                   *)

\* the migrations of the Action schema merged before those of the core schema: C25
\* does not hold of it
MigrationOrderActionsFirst ==
    <<"systemUser", "trackActionChanges", "_root", "vnode", "slugIdTrigger">>

MigrationOrder == <<"_root", "vnode", "slugIdTrigger", "systemUser", "trackActionChanges">>
MigrationIds == {MigrationOrder[i] : i \in 1..Len(MigrationOrder)}

dependsOn ==
    [id \in MigrationIds |->
        CASE id = "_root" -> {}
          [] id = "vnode" -> {"_root"}
          [] id = "slugIdTrigger" -> {"vnode"}
          [] id = "systemUser" -> {"vnode", "slugIdTrigger"}
          [] id = "trackActionChanges" -> {"vnode"}]

\* the constraints and triggers each forward procedure creates (the
\* trackActionChanges trigger is the variable `trigger`)
Constraints ==
    [id \in MigrationIds |->
        CASE id = "_root" -> {"migration_id_uniq"}
          [] id = "vnode" -> {"vnode_id_uniq", "vnode_slugid_uniq", "slugid_slugid_uniq"}
          [] id = "slugIdTrigger" -> {"updateSlugIdRelation", "deleteSlugIdRelation"}
          [] OTHER -> {}]

\* systemUser.forward: the system user, the Action that created it, and the SlugId
\* that updateSlugIdRelation makes for its slugId
SystemUserData(installed) ==
    {"User:_0", "Action:CreateUser"}
        \cup (IF "updateSlugIdRelation" \in installed THEN {"SlugId:user-system"} ELSE {})

\* the store after runMigrations() on an empty database
Migrated ==
    [applied |-> MigrationOrder,
     installed |-> UNION {Constraints[id] : id \in MigrationIds}
                    \cup SystemUserData({"updateSlugIdRelation"}),
     op |-> "idle"]

---------------------------------------------------------------------------
(* Initial states: the store right after the migrations, empty or holding  *)
(* test-project data loaded before any Action of the run.                  *)

LiveNode(n, name, year) ==
    [exists |-> TRUE, labels |-> {"VNode", TypeLabel(n)},
     props |-> [NoProps EXCEPT !["id"] = n, !["name"] = name, !["year"] = year]]

FranchiseAndMovie ==
    [nodes |-> [n \in NodeIds |->
                    IF n = "mcu" THEN LiveNode("mcu", "MCU", NULL)
                    ELSE LiveNode("gotg", "GotG", "2014")],
     rels |-> {[id |-> 1, type |-> "FRANCHISE_IS", from |-> "gotg", to |-> "mcu",
                props |-> NoRelProps]},
     nextRel |-> 2,
     used |-> {"mcu", "gotg"},
     slugIds |-> {}]

MovieWithoutFranchise == [FranchiseAndMovie EXCEPT !.rels = {}]

Init ==
    /\ graph \in {EmptyGraph, FranchiseAndMovie, MovieWithoutFranchise}
    /\ actions = <<>>
    /\ trigger = "active"
    /\ inflight = {}
    /\ last = Outcome("init", NoAction, "ok")
    /\ pending = [queue |-> <<>>, done |-> 0, unrun |-> <<>>]
    /\ movieRel = TestProjectRel
    /\ migrator = Migrated

---------------------------------------------------------------------------
(* Operations *)

\* runAsSystem(GenericCypherAction({cypher, modifiedNodes})), the cypher among `names`
RunGeneric(names) ==
    /\ trigger = "active"
    /\ \E name \in names :
        \E modifiedNodes \in {ActionInputs[name].modifiedNodes, {}} :
            RunAction("GenericCypherAction", NoAction,
                      GenericCypherApply(graph, ActionInputs[name], modifiedNodes))
    /\ UNCHANGED <<trigger, inflight, pending, movieRel, migrator>>

RunGenericCypherAction ==
    /\ RunGeneric(InputNames)

\* runAsSystem(UndoAction({actionId}))
RunUndoAction ==
    /\ trigger = "active"
    /\ \E actionId \in 1..Len(actions) :
            RunAction("UndoAction", actionId, UndoActionApply(graph, actions, actionId))
    /\ UNCHANGED <<trigger, inflight, pending, movieRel, migrator>>

Next ==
    \/ RunGenericCypherAction
    \/ RunUndoAction

Spec == Init /\ [][Next]_vars

---------------------------------------------------------------------------
(* Writes outside the runner, and the paused trigger (schema migrations).  *)

\* the Action nodes a raw transaction creates itself: no MODIFIED, no details
RawActionRecord(g0, g1) ==
    ActionRecord("raw", NoAction, {}, {}, g0, g1)

RECURSIVE RawActions(_, _, _, _)
RawActions(acts, nActions, g0, g1) ==
    IF nActions = 0 THEN acts
    ELSE RawActions(Append(acts, RawActionRecord(g0, g1)), nActions - 1, g0, g1)

\* graph._restrictedWrite(tx => tx.run(cypher)): a write transaction that creates
\* nActions Action nodes of its own.  The trigger runs before the commit of a
\* transaction that wrote something, unless it is paused.
RestrictedWrite ==
    \E name \in {"CreateMovieFranchise", "UpdateMovieName"}, nActions \in {0, 2} :
        LET g1 == RunCypher(graph, ActionInputs[name].cypher)
            verdict == IF SlugIdConflict(graph, g1) THEN ConstraintError
                       ELSE IF trigger = "active" /\ (g1 # graph \/ nActions > 0)
                       THEN trackActionChanges(graph, g1, nActions, {})
                       ELSE "ok"
        IN  /\ IF verdict = "ok"
               THEN /\ Len(actions) + nActions <= MaxActions
                    /\ graph' = SlugIdTriggers(graph, g1)
                    /\ actions' = RawActions(actions, nActions, graph, g1)
               ELSE UNCHANGED <<graph, actions>>
            /\ last' = Outcome("_restrictedWrite", NoAction, verdict)
            /\ UNCHANGED <<trigger, inflight, pending, movieRel, migrator>>

\* _restrictedAllowWritesWithoutAction, before someCode():
\* CALL apoc.trigger.pause("trackActionChanges")
PauseTrigger ==
    /\ trigger = "active"
    /\ trigger' = "paused"
    /\ UNCHANGED <<graph, actions, inflight, last, pending, movieRel, migrator>>

\* _restrictedAllowWritesWithoutAction, finally:
\* CALL apoc.trigger.resume("trackActionChanges")
ResumeTrigger ==
    /\ trigger = "paused"
    /\ trigger' = "active"
    /\ UNCHANGED <<graph, actions, inflight, last, pending, movieRel, migrator>>

TriggerInputNames == {"CreateMovieFranchise", "CreateMovie", "UpdateMovieName"}

RunTestAction ==
    /\ RunGeneric(TriggerInputNames)

NextTrigger ==
    \/ RunTestAction
    \/ RestrictedWrite
    \/ PauseTrigger
    \/ ResumeTrigger

SpecTrigger == Init /\ [][NextTrigger]_vars

---------------------------------------------------------------------------
(* UndoActions of several clients at once.  Each runs in its own write     *)
(* transaction; the store gives every transaction the snapshot it began    *)
(* with and aborts a transaction at commit when an entity it wrote was     *)
(* written by a transaction that committed after that snapshot.            *)

\* the nodes a transaction wrote; a relationship belongs to its start node
WriteSet(g0, g1) ==
    {n \in NodeIds :
        \/ g0.nodes[n] # g1.nodes[n]
        \/ {r \in g0.rels : r.from = n} # {r \in g1.rels : r.from = n}}

\* some node of the write set was changed by a commit after the snapshot g0
WriteConflict(g0, g1, cur) == WriteSet(g0, g1) \cap WriteSet(g0, cur) # {}

\* the committed graph after the transaction's writes are applied to it
MergeWrites(cur, g0, g1) ==
    LET ws == WriteSet(g0, g1)
        shift == cur.nextRel - g0.nextRel
    IN  [nodes |-> [n \in NodeIds |-> IF n \in ws THEN g1.nodes[n] ELSE cur.nodes[n]],
         rels |-> {r \in cur.rels : r.from \notin ws}
                  \cup {r \in g1.rels : r.from \in ws /\ r.id < g0.nextRel}
                  \cup {[r EXCEPT !.id = @ + shift] :
                            r \in {x \in g1.rels : x.from \in ws /\ x.id >= g0.nextRel}},
         nextRel |-> g1.nextRel + shift,
         used |-> cur.used \cup g1.used,
         slugIds |-> cur.slugIds \cup g1.slugIds]

Clients == 1..MaxClients

\* a client calls runAsSystem(UndoAction({actionId})): the transaction opens
BeginUndo ==
    /\ trigger = "active"
    /\ \E c \in Clients, actionId \in 1..Len(actions) :
        /\ \A t \in inflight : t.client # c
        /\ inflight' = inflight \cup
                {[client |-> c, actionId |-> actionId, g |-> graph, acts |-> actions]}
    /\ UNCHANGED <<graph, actions, trigger, last, pending, movieRel, migrator>>

\* the transaction of a client runs apply() on its snapshot and tries to commit
FinishUndo ==
    \E t \in inflight :
        LET applied == UndoActionApply(t.g, t.acts, t.actionId)
            verdict == IF RunnerVerdict(t.g, applied) # "ok" THEN RunnerVerdict(t.g, applied)
                       ELSE IF WriteConflict(t.g, applied.g, graph) THEN "TransactionError"
                       ELSE "ok"
        IN  /\ inflight' = inflight \ {t}
            /\ IF verdict = "ok"
               THEN /\ Len(actions) < MaxActions
                    /\ graph' = MergeWrites(graph, t.g, SlugIdTriggers(t.g, applied.g))
                    /\ actions' = CommittedActions(actions, "UndoAction", t.actionId,
                            ActionRecord("UndoAction", t.actionId, applied.modifiedNodes,
                                         ModifiedLinks(applied.g, applied.modifiedNodes),
                                         t.g, applied.g))
               ELSE UNCHANGED <<graph, actions>>
            /\ last' = Outcome("UndoAction", t.actionId, verdict)
            /\ UNCHANGED <<trigger, pending, movieRel, migrator>>

ConcurrentInputNames == {"UpdateMovieFranchiseNull", "UpdateMovieName", "SoftDeleteMovie"}

RunClientAction ==
    /\ RunGeneric(ConcurrentInputNames)

NextConcurrent ==
    \/ RunClientAction
    \/ BeginUndo
    \/ FinishUndo

SpecConcurrent == Init /\ [][NextConcurrent]_vars

---------------------------------------------------------------------------
(* An UpdateMovie of one client while the UndoAction of another is under   *)
(* way (or the other way round): both set the name of the same movie.      *)

\* a store that detects no write-write conflict: C31 does not hold of it
WriteConflictUndetected(g0, g1, cur) == FALSE

\* the store's verdict on the commit of a transaction that began on g0 and wrote g1
CommitConflict(g0, g1, cur) == WriteConflict(g0, g1, cur)

WriterInputNames == {"UpdateMovieName", "UpdateMovieNameAgain"}

\* a client calls runAsSystem(UpdateMovie({key, name})): the transaction opens
BeginUpdate ==
    /\ trigger = "active"
    /\ \A t \in inflight : t.client # "writer"
    /\ \E name \in WriterInputNames :
        inflight' = inflight \cup
                {[client |-> "writer", actionId |-> NoAction, g |-> graph, acts |-> actions,
                  name |-> name]}
    /\ UNCHANGED <<graph, actions, trigger, last, pending, movieRel, migrator>>

\* another client calls runAsSystem(UndoAction({actionId})): the transaction opens
BeginUndoOfUpdate ==
    /\ trigger = "active"
    /\ \A t \in inflight : t.client # "undoer"
    /\ \E actionId \in 1..Len(actions) :
        inflight' = inflight \cup
                {[client |-> "undoer", actionId |-> actionId, g |-> graph, acts |-> actions,
                  name |-> ""]}
    /\ UNCHANGED <<graph, actions, trigger, last, pending, movieRel, migrator>>

\* the commit or abort of the transaction of an Action that began on t.g
CommitOrAbort(t, type, applied) ==
    LET verdict == IF RunnerVerdict(t.g, applied) # "ok" THEN RunnerVerdict(t.g, applied)
                   ELSE IF CommitConflict(t.g, applied.g, graph) THEN "TransactionError"
                   ELSE "ok"
    IN  /\ inflight' = inflight \ {t}
        /\ IF verdict = "ok"
           THEN /\ Len(actions) < MaxActions
                /\ graph' = MergeWrites(graph, t.g, SlugIdTriggers(t.g, applied.g))
                /\ actions' = CommittedActions(actions, type, t.actionId,
                        ActionRecord(type, t.actionId, applied.modifiedNodes,
                                     ModifiedLinks(applied.g, applied.modifiedNodes),
                                     t.g, applied.g))
           ELSE UNCHANGED <<graph, actions>>
        /\ last' = Outcome(type, t.actionId, verdict)
        /\ UNCHANGED <<trigger, pending, movieRel, migrator>>

\* the UpdateMovie transaction runs its cypher on its snapshot and tries to commit
FinishUpdate ==
    \E t \in {x \in inflight : x.actionId = NoAction} :
        CommitOrAbort(t, "GenericCypherAction",
            GenericCypherApply(t.g, ActionInputs[t.name], ActionInputs[t.name].modifiedNodes))

\* the UndoAction transaction checks and reverts on its snapshot and tries to commit
FinishUndoOfUpdate ==
    \E t \in {x \in inflight : x.actionId # NoAction} :
        CommitOrAbort(t, "UndoAction", UndoActionApply(t.g, t.acts, t.actionId))

NextLostUpdate ==
    \/ BeginUpdate
    \/ FinishUpdate
    \/ BeginUndoOfUpdate
    \/ FinishUndoOfUpdate

SpecLostUpdate == Init /\ [][NextLostUpdate]_vars

---------------------------------------------------------------------------
(* Undo and redo at length: a few Actions, then only UndoActions, of       *)
(* Actions and of the UndoActions that reverted them.                      *)

RunPlainAction ==
    /\ trigger = "active"
    /\ Len(actions) < MaxPlain
    /\ \A i \in 1..Len(actions) : actions[i].type # "UndoAction"
    /\ \E name \in InputNames :
            RunActionWithin(MaxRedo, "GenericCypherAction", NoAction,
                GenericCypherApply(graph, ActionInputs[name], ActionInputs[name].modifiedNodes))
    /\ UNCHANGED <<trigger, inflight, pending, movieRel, migrator>>

RunUndoOrRedo ==
    /\ trigger = "active"
    /\ \E actionId \in 1..Len(actions) :
            RunActionWithin(MaxRedo, "UndoAction", actionId,
                            UndoActionApply(graph, actions, actionId))
    /\ UNCHANGED <<trigger, inflight, pending, movieRel, migrator>>

NextRedo ==
    \/ RunPlainAction
    \/ RunUndoOrRedo

SpecRedo == Init /\ [][NextRedo]_vars

---------------------------------------------------------------------------
(* UpdateMovie Actions that change one or two properties of the movie, and *)
(* UndoAction of them.                                                     *)

PropertyInputNames == {"UpdateMovieName", "UpdateMovieNameYear", "UpdateMovieNameAgain"}

RunUpdateMovie ==
    /\ RunGeneric(PropertyInputNames)

NextProperties ==
    \/ RunUpdateMovie
    \/ RunUndoAction

SpecProperties == Init /\ [][NextProperties]_vars

---------------------------------------------------------------------------
(* Actions that create entities, Actions that delete them afterwards, and  *)
(* UndoAction of them.                                                     *)

CreatedInputNames ==
    {"CreateMovieFranchise", "CreateMovie", "CreateFranchiseAndMovie", "SoftDeleteFranchise",
     "SoftDeleteMovie", "PurgeMovie"}

RunCreateOrDelete ==
    /\ RunGeneric(CreatedInputNames)

NextCreated ==
    \/ RunCreateOrDelete
    \/ RunUndoAction

SpecCreated == Init /\ [][NextCreated]_vars

---------------------------------------------------------------------------
(* Actions that create and delete relationships of a type the VNode type   *)
(* does not declare (so that several may run in parallel between the same  *)
(* two entities), with or without a property, and UndoAction of them.      *)

RelationshipInputNames ==
    {"LinkOnce", "LinkTwice", "LinkWithRole", "Unlink", "UpdateMovieFranchiseNull",
     "SoftDeleteFranchise"}

RunLinkOrUnlink ==
    /\ RunGeneric(RelationshipInputNames)

NextRelationships ==
    \/ RunLinkOrUnlink
    \/ RunUndoAction

SpecRelationships == Init /\ [][NextRelationships]_vars

---------------------------------------------------------------------------
(* The Actions of 'It won't undo an action if there is a conflict': the    *)
(* franchise and the movie are created, the movie's franchise is set to    *)
(* null or set again, and any committed Action is undone, redone, retried. *)

MaxRetry == 5

RetryInputNames ==
    {"CreateMovieFranchise", "CreateMovie", "UpdateMovieFranchiseNull", "LinkFranchiseAgain"}

RunConflictTestAction ==
    /\ trigger = "active"
    /\ \E name \in RetryInputNames :
            RunActionWithin(MaxRetry, "GenericCypherAction", NoAction,
                GenericCypherApply(graph, ActionInputs[name], ActionInputs[name].modifiedNodes))
    /\ UNCHANGED <<trigger, inflight, pending, movieRel, migrator>>

RunUndoOrRetry ==
    /\ trigger = "active"
    /\ \E actionId \in 1..Len(actions) :
            RunActionWithin(MaxRetry, "UndoAction", actionId,
                            UndoActionApply(graph, actions, actionId))
    /\ UNCHANGED <<trigger, inflight, pending, movieRel, migrator>>

NextRetry ==
    \/ RunConflictTestAction
    \/ RunUndoOrRetry

SpecRetry == Init /\ [][NextRetry]_vars

---------------------------------------------------------------------------
(* Actions whose undo depends on the order of the inverse steps: they      *)
(* soft-delete an entity and delete its relationship or change its         *)
(* property, or create an entity together with its relationship.           *)

OrderInputNames ==
    {"CreateMovieFranchise", "CreateMovie", "UnlinkAndSoftDeleteMovie",
     "RenameAndSoftDeleteMovie"}

RunOrderedAction ==
    /\ RunGeneric(OrderInputNames)

NextOrder ==
    \/ RunOrderedAction
    \/ RunUndoAction

SpecOrder == Init /\ [][NextOrder]_vars

---------------------------------------------------------------------------
(* The Movie type declared with each Cardinality in turn: Actions that     *)
(* create, add and delete FRANCHISE_IS relationships, or soft-delete their  *)
(* target, and UndoAction of them.                                          *)

InitCardinality ==
    /\ graph \in {EmptyGraph, FranchiseAndMovie}
    /\ actions = <<>>
    /\ trigger = "active"
    /\ inflight = {}
    /\ last = Outcome("init", NoAction, "ok")
    /\ pending = [queue |-> <<>>, done |-> 0, unrun |-> <<>>]
    /\ movieRel \in [{"FRANCHISE_IS"} -> Cardinalities]
    /\ migrator = Migrated

CardinalityInputNames ==
    {"CreateMovieFranchise", "CreateMovie", "CreateMovieOnly", "UpdateMovieFranchiseNull",
     "LinkFranchiseAgain", "LinkAndSoftDeleteFranchise", "SoftDeleteFranchise"}

RunMovieAction ==
    /\ RunGeneric(CardinalityInputNames)

NextCardinality ==
    \/ RunMovieAction
    \/ RunUndoAction

SpecCardinality == InitCardinality /\ [][NextCardinality]_vars

---------------------------------------------------------------------------
(* Migrations.  runMigrations() and reverseAllMigrations() run the forward  *)
(* and backward procedures inside _restrictedAllowWritesWithoutAction, and  *)
(* so does resetDBToSnapshot(); Actions run once the store is migrated.     *)

AppliedIds(m) == {m.applied[i] : i \in 1..Len(m.applied)}

Position(id) == CHOOSE i \in 1..Len(MigrationOrder) : MigrationOrder[i] = id

\* the migrations that can be applied now: not applied, every dependsOn applied
Ready(appliedIds) ==
    {id \in MigrationIds \ appliedIds : dependsOn[id] \subseteq appliedIds}

\* the next migration to apply: of those that are ready, the one declared first
NextForward(appliedIds) ==
    CHOOSE id \in Ready(appliedIds) : \A other \in Ready(appliedIds) : Position(id) <= Position(other)

\* the next migration to reverse: the one applied last
NextBackward(applied) == applied[Len(applied)]

\* the nodes that the cypher "MATCH (n:VNode) ... DETACH DELETE n" deletes
RECURSIVE DetachDeleteAll(_, _)
DetachDeleteAll(g, ns) ==
    IF ns = {} THEN g
    ELSE LET n == CHOOSE x \in ns : TRUE IN DetachDeleteAll(DetachDelete(g, n), ns \ {n})

\* vnode.backward: drop the constraints, then delete every :SlugId node and every
\* :VNode node
DeleteSlugIdsAndVNodes(g) ==
    [DetachDeleteAll(g, {n \in NodeIds : HasLabel(g, n, "VNode")}) EXCEPT !.slugIds = {}]

\* migrations[id].forward: what it adds to the schema objects and bootstrap data
ForwardInstalled(id, installed) ==
    installed \cup Constraints[id]
        \cup (IF id = "systemUser" THEN SystemUserData(installed) ELSE {})

\* migrations[id].backward: what is left of the schema objects and bootstrap data
BackwardInstalled(id, installed) ==
    CASE id = "systemUser" ->
            installed \ ({"User:_0"} \cup (IF "deleteSlugIdRelation" \in installed
                                            THEN {"SlugId:user-system"} ELSE {}))
      [] id = "vnode" ->
            installed \ (Constraints[id] \cup {"User:_0", "Action:CreateUser", "SlugId:user-system"})
      [] OTHER -> installed \ Constraints[id]

\* if (await this.isTriggerInstalled("trackActionChanges")) apoc.trigger.pause(...)
PausedIfInstalled(trig) == IF trig = "absent" THEN trig ELSE "paused"

\* a finally that leaves the trigger as someCode left it: C27 does not hold of it
NotResumed(trig) == trig

\* finally: if (await this.isTriggerInstalled("trackActionChanges"))
\* apoc.trigger.resume(...)
ResumedIfInstalled(trig) == IF trig = "absent" THEN trig ELSE "active"

\* _restrictedAllowWritesWithoutAction(someCode), up to the call of someCode
BeginAllowWrites(op) ==
    /\ migrator.op = "idle"
    /\ migrator' = [migrator EXCEPT !.op = op]
    /\ trigger' = PausedIfInstalled(trigger)
    /\ UNCHANGED <<graph, actions, inflight, last, pending, movieRel>>

\* _restrictedAllowWritesWithoutAction(someCode), from the return of someCode
EndAllowWrites ==
    /\ migrator' = [migrator EXCEPT !.op = "idle"]
    /\ trigger' = ResumedIfInstalled(trigger)
    /\ UNCHANGED <<graph, actions, inflight, last, pending, movieRel>>

BeginRunMigrations ==
    /\ BeginAllowWrites("runMigrations")

\* one migration of runMigrations(): its forward procedure and its Migration node
ApplyForward ==
    /\ migrator.op = "runMigrations"
    /\ Ready(AppliedIds(migrator)) # {}
    /\ LET id == NextForward(AppliedIds(migrator))
       IN  /\ migrator' = [migrator EXCEPT
                                !.applied = Append(@, id),
                                !.installed = ForwardInstalled(id, @)]
           /\ trigger' = IF id = "trackActionChanges" THEN "paused" ELSE trigger
    /\ UNCHANGED <<graph, actions, inflight, last, pending, movieRel>>

FinishRunMigrations ==
    /\ migrator.op = "runMigrations"
    /\ Ready(AppliedIds(migrator)) = {}
    /\ EndAllowWrites

BeginReverseAllMigrations ==
    /\ BeginAllowWrites("reverseAllMigrations")

\* one migration of reverseAllMigrations(): its backward procedure, and its
\* Migration node is deleted
ApplyBackward ==
    /\ migrator.op = "reverseAllMigrations"
    /\ migrator.applied # <<>>
    /\ LET id == NextBackward(migrator.applied)
       IN  /\ migrator' = [migrator EXCEPT
                                !.applied = SubSeq(@, 1, Len(@) - 1),
                                !.installed = BackwardInstalled(id, @)]
           /\ trigger' = IF id = "trackActionChanges" THEN "absent" ELSE trigger
           /\ graph' = IF id = "vnode" THEN DeleteSlugIdsAndVNodes(graph) ELSE graph
           /\ actions' = IF id = "vnode" THEN <<>> ELSE actions
    /\ UNCHANGED <<inflight, last, pending, movieRel>>

FinishReverseAllMigrations ==
    /\ migrator.op = "reverseAllMigrations"
    /\ migrator.applied = <<>>
    /\ EndAllowWrites

\* resetDBToSnapshot(baseSnapshot), the snapshot taken right after the migrations
BeginResetDBToSnapshot ==
    /\ migrator.applied = MigrationOrder
    /\ BeginAllowWrites("resetDBToSnapshot")

\* its write transaction: MATCH (n) DETACH DELETE n, then the statements of the
\* snapshot.  The trackActionChanges trigger runs on it unless paused.
ResetWrite ==
    /\ migrator.op = "resetDBToSnapshot"
    /\ LET g1 == [DetachDeleteAll(graph, NodeIds) EXCEPT !.slugIds = {}]
           verdict == IF trigger = "active" THEN trackActionChanges(graph, g1, 0, {})
                      ELSE "ok"
       IN  /\ IF verdict = "ok"
              THEN /\ graph' = g1
                   /\ actions' = <<>>
                   /\ migrator' = [migrator EXCEPT !.op = "resetDBToSnapshot: restored"]
              ELSE UNCHANGED <<graph, actions, migrator>>
           /\ last' = Outcome("resetDBToSnapshot", NoAction, verdict)
    /\ UNCHANGED <<trigger, inflight, pending, movieRel>>

FinishResetDBToSnapshot ==
    /\ migrator.op = "resetDBToSnapshot: restored"
    /\ EndAllowWrites

\* someCode() throws: the finally runs
SomeCodeThrows ==
    /\ migrator.op # "idle"
    /\ EndAllowWrites

MigratedInputNames == {"CreateMovieFranchise", "SoftDeleteFranchise"}

RunMigratedAction ==
    /\ migrator.op = "idle"
    /\ migrator.applied = MigrationOrder
    /\ RunGeneric(MigratedInputNames)

\* the empty database, before runMigrations()
InitMigrations ==
    /\ graph = EmptyGraph
    /\ actions = <<>>
    /\ trigger = "absent"
    /\ inflight = {}
    /\ last = Outcome("init", NoAction, "ok")
    /\ pending = [queue |-> <<>>, done |-> 0, unrun |-> <<>>]
    /\ movieRel = TestProjectRel
    /\ migrator = [applied |-> <<>>, installed |-> {}, op |-> "idle"]

NextMigrations ==
    \/ BeginRunMigrations
    \/ ApplyForward
    \/ FinishRunMigrations
    \/ BeginReverseAllMigrations
    \/ ApplyBackward
    \/ FinishReverseAllMigrations
    \/ BeginResetDBToSnapshot
    \/ ResetWrite
    \/ FinishResetDBToSnapshot
    \/ SomeCodeThrows
    \/ RunMigratedAction

SpecMigrations == InitMigrations /\ [][NextMigrations]_vars

---------------------------------------------------------------------------
(* Slugs: Actions that give an entity a slugId or change it, give the same  *)
(* slugId to another entity, soft-delete or permanently delete the entity,  *)
(* and UndoAction of them.                                                  *)

SlugInputNames ==
    {"SetMovieSlug", "ChangeMovieSlug", "SetFranchiseSlug", "SoftDeleteMovie", "PurgeMovie"}

RunSlugAction ==
    /\ RunGeneric(SlugInputNames)

NextSlug ==
    \/ RunSlugAction
    \/ RunUndoAction

SpecSlug == Init /\ [][NextSlug]_vars

---------------------------------------------------------------------------
(* Calls of _restrictedAllowWritesWithoutAction that overlap (one inside   *)
(* the someCode of another, or two at once), and Actions that run in the   *)
(* meantime.  Here `inflight` holds the calls whose someCode is running.   *)
(* The pause and the resume act on the one trigger of the database.        *)

Invocation(c) == [client |-> c, actionId |-> NoAction]

\* _restrictedAllowWritesWithoutAction(someCode) of one caller, up to the call of
\* someCode
EnterAllowWrites ==
    /\ trigger # "absent"
    /\ \E c \in Clients :
        /\ Invocation(c) \notin inflight
        /\ inflight' = inflight \cup {Invocation(c)}
    /\ trigger' = PausedIfInstalled(trigger)
    /\ UNCHANGED <<graph, actions, last, pending, movieRel, migrator>>

\* someCode() of a call under way writes through _restrictedWrite, without an Action
SomeCodeWrites ==
    /\ inflight # {}
    /\ RestrictedWrite

\* someCode() of one caller returned or threw: the finally of its call
LeaveAllowWrites ==
    /\ \E t \in inflight : inflight' = inflight \ {t}
    /\ trigger' = ResumedIfInstalled(trigger)
    /\ UNCHANGED <<graph, actions, last, pending, movieRel, migrator>>

\* the runner's verdict on a transaction that the paused trigger does not see
RunnerVerdictPaused(g0, applied) ==
    IF applied.error # "none" THEN Rethrown(applied.error)
    ELSE IF \E n \in ModifiedLinks(applied.g, applied.modifiedNodes) :
                IsLive(applied.g, n) /\ ~ValidateRelationships(applied.g, n)
        THEN "ValidationError"
    ELSE IF SlugIdConflict(g0, applied.g) THEN ConstraintError
    ELSE "ok"

\* the Action node committed while the trigger is paused: the runner's MODIFIED
\* links, and none of what the trigger would have attached
UncapturedRecord(type, actionId, declared, links, g0, g1) ==
    [ActionRecord(type, actionId, declared, links, g0, g1) EXCEPT
        !.details = [n \in NodeIds |-> NoChangeDetails],
        !.deletedNodesCount = 0,
        !.createdEntries = {}]

OverlapInputNames == {"CreateMovieFranchise", "UpdateMovieName"}

\* runAsSystem(action) of the application while calls may be under way
RunActionMeanwhile ==
    \E name \in OverlapInputNames :
        LET applied == GenericCypherApply(graph, ActionInputs[name],
                                          ActionInputs[name].modifiedNodes)
        IN  /\ IF trigger = "active"
               THEN RunAction("GenericCypherAction", NoAction, applied)
               ELSE /\ RunnerVerdictPaused(graph, applied) = "ok"
                    /\ Len(actions) < MaxActions
                    /\ graph' = SlugIdTriggers(graph, applied.g)
                    /\ actions' = Append(actions,
                            UncapturedRecord("GenericCypherAction", NoAction,
                                applied.modifiedNodes,
                                ModifiedLinks(applied.g, applied.modifiedNodes),
                                graph, applied.g))
                    /\ last' = Outcome("GenericCypherAction", NoAction, "ok")
            /\ UNCHANGED <<trigger, inflight, pending, movieRel, migrator>>

NextOverlap ==
    \/ EnterAllowWrites
    \/ SomeCodeWrites
    \/ LeaveAllowWrites
    \/ RunActionMeanwhile

SpecOverlap == Init /\ [][NextOverlap]_vars

---------------------------------------------------------------------------
(* Vertex.runAs(userUuid, action, ...otherActions): the Actions of the     *)
(* call run one after the other, each by its own runAction call; the first *)
(* error ends the call.  Here `last` holds the outcome of every runAction  *)
(* call, failed or not.                                                    *)

Generic(name) == [type |-> "GenericCypherAction", name |-> name, actionId |-> NoAction]
Undo(actionId) == [type |-> "UndoAction", name |-> "", actionId |-> actionId]

RunAsInputNames == {"CreateMovie", "SoftDeleteMovie", "SetRelRole", "SetDeletedRelRole"}

\* the Actions a caller can pass: the cypher above, and UndoAction of the latest Action
RunAsActions ==
    {Generic(name) : name \in RunAsInputNames} \cup {Undo(a) : a \in {Len(actions)} \ {0}}

SeqsUpTo(S, n) == UNION {[1..k -> S] : k \in 1..n}

\* action.apply(tx, data) of one Action of the call
ApplyOf(action) ==
    IF action.type = "UndoAction"
    THEN UndoActionApply(graph, actions, action.actionId)
    ELSE GenericCypherApply(graph, ActionInputs[action.name],
                            ActionInputs[action.name].modifiedNodes)

\* a runAs that takes the Actions from the end of the list: C14 does not hold of it
NextInReverse(queue) == queue[Len(queue)]

\* `action`, then `for (const action of otherActions)`: the Action to run next
NextInOrder(queue) == Head(queue)

\* a runAs that catches the error of an Action and goes on with the next one: C38
\* does not hold of it
AfterRejectionContinue(queue) == Tail(queue)

\* the `await runAction(...)` that rejects is inside the for loop with no try/catch:
\* the loop ends there, the Actions left in the list (pending.unrun) are never run
AfterRejection(queue) == <<>>

\* runAs(userUuid, action, ...otherActions) is called
CallRunAs ==
    /\ trigger = "active"
    /\ pending.queue = <<>>
    /\ \E call \in SeqsUpTo(RunAsActions, MaxRunAs) : pending' = [queue |-> call, done |-> 0, unrun |-> <<>>]
    /\ UNCHANGED <<graph, actions, trigger, inflight, last, movieRel, migrator>>

\* result = await runAction(this, action, userUuid), for the next Action of the call
RunAsStep ==
    /\ pending.queue # <<>>
    /\ LET action == NextInOrder(pending.queue)
           applied == ApplyOf(action)
           verdict == RunnerVerdict(graph, applied)
       IN  IF verdict = "ok"
           THEN /\ RunAction(action.type, action.actionId, applied)
                /\ pending' = [pending EXCEPT !.queue = Tail(@), !.done = @ + 1]
           ELSE /\ graph' = RolledBack(graph, applied)
                /\ last' = Outcome(action.type, action.actionId, verdict)
                /\ pending' = [pending EXCEPT !.queue = AfterRejection(@),
                                                 !.unrun = Tail(pending.queue)]
                /\ UNCHANGED actions
    /\ UNCHANGED <<trigger, inflight, movieRel, migrator>>

NextRunAs ==
    \/ CallRunAs
    \/ RunAsStep

SpecRunAs == Init /\ [][NextRunAs]_vars

---------------------------------------------------------------------------
(* updateToOneRelationship and updateToManyRelationship, the helpers of    *)
(* "Update"-type Actions.  A RelationshipSpec is [key, props]; the rows of *)
(* a query come in no specified order, so where the code takes the first   *)
(* row (prevTo of the to-one helper) every row is a possible result.       *)

MaxTo == 2          \* entries of the `to` list of updateToManyRelationship
MaxHelperCalls == 2 \* Actions that call a helper

RelSpec(r) == [key |-> r.to, props |-> r.props]
KeyNull == [key |-> NULL, props |-> NoRelProps]
TargetNotFoundError == "target not found"

\* MATCH (:<fromType> {id: fromId})-[rel:<relType>]->(target:VNode)
HelperMatch(g, from, relType) ==
    {r \in g.rels : /\ r.from = from /\ r.type = relType
                    /\ HasLabel(g, from, TypeLabel(from))
                    /\ IsLive(g, r.to)}

\* MATCH (target...), target HAS KEY key WHERE target:<label of rel.to> OR ...
HelperTarget(g, relType, key) ==
    /\ key \in NodeIds
    /\ IsLive(g, key)
    /\ g.nodes[key].labels \cap AllowedLabels(relType) # {}

\* updateToOneRelationship(tx, {from, rel, to})
updateToOneRelationship(g, from, relType, to) ==
    LET old == HelperMatch(g, from, relType)
        prevTo == IF old = {} THEN {KeyNull} ELSE {RelSpec(r) : r \in old}
        \* MERGE (self)-[rel]->(target): every relationship of the type between
        \* the two is a match, and a row; without a match one is created
        merged == {r \in g.rels : r.from = from /\ r.type = relType /\ r.to = to.key}
        rows == IF merged = {} THEN {g.nextRel} ELSE {r.id : r \in merged}
        created == IF merged = {}
                   THEN {[id |-> g.nextRel, type |-> relType, from |-> from, to |-> to.key,
                          props |-> to.props]}
                   ELSE {}
        \* SET rel = relationshipProps, for every row
        afterSet == {IF r.id \in rows THEN [r EXCEPT !.props = to.props] ELSE r :
                        r \in g.rels} \cup created
        \* OPTIONAL MATCH (self)-[oldRel]->(oldTarget:VNode) WHERE oldRel <> rel
        \* DELETE oldRel, for every row
        deleted == {r.id : r \in {x \in afterSet :
                        /\ x.from = from /\ x.type = relType /\ IsLive(g, x.to)
                        /\ \E row \in rows : x.id # row}}
    IN  IF to.key = NULL
            THEN [error |-> "none", g |-> [g EXCEPT !.rels = @ \ old], prevTo |-> prevTo]
        ELSE IF ~(HasLabel(g, from, TypeLabel(from)) /\ HelperTarget(g, relType, to.key))
            THEN [error |-> TargetNotFoundError, g |-> g, prevTo |-> {KeyNull}]
        ELSE [error |-> "none",
              g |-> [g EXCEPT !.rels = {r \in afterSet : r.id \notin deleted},
                              !.nextRel = IF merged = {} THEN @ + 1 ELSE @],
              prevTo |-> prevTo]

\* relResult.find(el => el["target.id"] === key && stringify(el.oldProps) ===
\* stringify(newProps)): the first identical row of relResult, the same one at every
\* call (relResult is taken in the order of the internal ids)
FindIdentical(relResult, spec) ==
    LET identical == {r \in relResult : RelSpec(r) = spec}
    IN  IF identical = {} THEN {}
        ELSE {CHOOSE r \in identical : \A r2 \in identical : r.id <= r2.id}

\* for (const {key, ...newProps} of to): the entries without an identical existing
\* relationship are created one by one; an entry whose target is not found throws
RECURSIVE CreateMissing(_, _, _, _, _, _)
CreateMissing(g, relResult, from, relType, to, i) ==
    IF i > Len(to) THEN [error |-> "none", g |-> g]
    ELSE IF FindIdentical(relResult, to[i]) # {}
        THEN CreateMissing(g, relResult, from, relType, to, i + 1)
    ELSE IF ~(HasLabel(g, from, TypeLabel(from)) /\ HelperTarget(g, relType, to[i].key))
        THEN [error |-> TargetNotFoundError, g |-> g]
    ELSE CreateMissing(
            [g EXCEPT !.rels = @ \cup {[id |-> g.nextRel, type |-> relType, from |-> from,
                                        to |-> to[i].key, props |-> to[i].props]},
                      !.nextRel = @ + 1],
            relResult, from, relType, to, i + 1)

\* updateToManyRelationship(tx, {from, rel, to})
updateToManyRelationship(g, from, relType, to) ==
    LET relResult == HelperMatch(g, from, relType)
        kept == UNION {FindIdentical(relResult, to[i]) : i \in DOMAIN to}
        existingRelationshipIdsToDelete == {r.id : r \in relResult \ kept}
        createdAll == CreateMissing(g, relResult, from, relType, to, 1)
    IN  IF createdAll.error # "none"
            THEN [error |-> createdAll.error, g |-> createdAll.g, prevTo |-> relResult]
        ELSE [error |-> "none",
              g |-> [createdAll.g EXCEPT
                        !.rels = {r \in @ : r.id \notin existingRelationshipIdsToDelete}],
              prevTo |-> relResult]

RoleProps(role) == [NoRelProps EXCEPT !["role"] = role]
HelperSpecs == {[key |-> k, props |-> RoleProps(role)] : k \in NodeIds, role \in {NULL, "lead"}}
HelperRelTypes == {"FRANCHISE_IS", "RELATED_TO"}

\* Movie.rel of the Actions below: FRANCHISE_IS as in the test project, and a to-many
\* relationship to movies and franchises
HelperRel ==
    [relType \in HelperRelTypes |-> IF relType = "FRANCHISE_IS" THEN ToOneOrNone ELSE ToMany]

HelperCall(op, relType, to, verdict, prevTo) ==
    [op |-> op, target |-> NoAction, result |-> verdict, relType |-> relType, to |-> to,
     prevTo |-> prevTo]

\* runAsSystem of an Action whose apply() calls the helper on the movie and declares
\* the movie modified
RunHelperAction(op, relType, to, result) ==
    LET applied == [error |-> result.error, g |-> result.g, modifiedNodes |-> {"gotg"}]
        verdict == RunnerVerdict(graph, applied)
    IN  /\ trigger = "active"
        /\ IF verdict = "ok"
           THEN /\ graph' = SlugIdTriggers(graph, applied.g)
                /\ actions' = CommittedActions(actions, "GenericCypherAction", NoAction,
                        ActionRecord("GenericCypherAction", NoAction, applied.modifiedNodes,
                                     ModifiedLinks(applied.g, applied.modifiedNodes),
                                     graph, applied.g))
           ELSE /\ graph' = RolledBack(graph, applied)
                /\ UNCHANGED actions
        /\ \E prevTo \in IF op = "updateToOneRelationship" THEN result.prevTo
                           ELSE {result.prevTo} :
                last' = HelperCall(op, relType, to, verdict, prevTo)
        /\ UNCHANGED <<trigger, inflight, pending, movieRel, migrator>>

RunUpdateToOne ==
    /\ Len(actions) < MaxHelperCalls
    /\ \E relType \in HelperRelTypes, to \in HelperSpecs \cup {KeyNull} :
            RunHelperAction("updateToOneRelationship", relType, to,
                            updateToOneRelationship(graph, "gotg", relType, to))

RunUpdateToMany ==
    /\ Len(actions) < MaxHelperCalls
    /\ \E to \in SeqsUpTo(HelperSpecs, MaxTo) \cup {<<>>} :
            RunHelperAction("updateToManyRelationship", "RELATED_TO", to,
                            updateToManyRelationship(graph, "gotg", "RELATED_TO", to))

InitHelpers ==
    /\ graph \in {FranchiseAndMovie, MovieWithoutFranchise}
    /\ actions = <<>>
    /\ trigger = "active"
    /\ inflight = {}
    /\ last = Outcome("init", NoAction, "ok")
    /\ pending = [queue |-> <<>>, done |-> 0, unrun |-> <<>>]
    /\ movieRel = HelperRel
    /\ migrator = Migrated

NextHelpers ==
    \/ RunUpdateToOne
    \/ RunUpdateToMany

SpecHelpers == InitHelpers /\ [][NextHelpers]_vars

---------------------------------------------------------------------------
(* The test harness: test() wraps a test's body with the hooks of the global context
   and of every group open when the test is registered. Deno runs the registered
   tests one after the other. Here `pending.queue` holds the registered tests not
   yet run, `pending.done` the number of tests run, and `last` the counters of every
   context with the number of times each of its lists of hooks was called. No test
   is registered with `only` or `ignore`, so onlyTests stays 0. *)

MaxTests == 3

\* globalContext, a group "suite", and a group "inner" opened inside "suite"
Contexts == {"global", "suite", "inner"}

\* globalContext.stack while a test is registered
Stacks == {<<>>, <<"suite">>, <<"suite", "inner">>}

\* a registered test: the groups around it, and whether its body throws
TestCases == [stack : Stacks, throws : BOOLEAN]

\* const hooks = [globalContext, ...globalContext.stack]
hooks(t) == <<"global">> \o t.stack

InHooks(t) == {hooks(t)[i] : i \in 1..Len(hooks(t))}

\* group() pushes its context, runs its function once and pops: the tests of one
\* group are registered one after the other
Registrations ==
    {tests \in SeqsUpTo(TestCases, MaxTests) :
        \A i \in 1..Len(tests) : \A j \in i..Len(tests) : \A k \in j..Len(tests) :
            (InHooks(tests[i]) \cap InHooks(tests[k])) \subseteq InHooks(tests[j])}

\* waitingTests of a context once every test is registered
waitingTests(tests, c) == Cardinality({i \in 1..Len(tests) : c \in InHooks(tests[i])})

NoCalls == [c \in Contexts |-> 0]

\* the "before" step: beforeAll of a context that completed no test yet, then its
\* beforeEach
BeforeStep(h, t) ==
    [h EXCEPT !.beforeAll = [c \in Contexts |->
                    IF c \in InHooks(t) /\ h.completedTests[c] = 0 THEN @[c] + 1 ELSE @[c]],
              !.beforeEach = [c \in Contexts |-> IF c \in InHooks(t) THEN @[c] + 1 ELSE @[c]]]

\* the finally block: completedTests++ of every hook
Finally(h, t) ==
    [h EXCEPT !.completedTests = [c \in Contexts |->
                    IF c \in InHooks(t) THEN @[c] + 1 ELSE @[c]]]

\* doAfter: for every one of revHooks, its afterEach, and its afterAll where
\* waitingTests === completedTests
doAfter(h, t) ==
    [h EXCEPT !.afterEach = [c \in Contexts |-> IF c \in InHooks(t) THEN @[c] + 1 ELSE @[c]],
              !.afterAll = [c \in Contexts |->
                    IF c \in InHooks(t) /\ waitingTests(h.tests, c) = h.completedTests[c]
                    THEN @[c] + 1 ELSE @[c]]]

RunHarness(h, result) ==
    /\ last' = [h EXCEPT !.result = result]
    /\ pending' = [pending EXCEPT !.queue = Tail(@), !.done = @ + 1]
    /\ UNCHANGED <<graph, actions, trigger, inflight, movieRel, migrator>>

\* the body returns: succeeded = true, the finally block, then the "after" step
TestSucceeds ==
    /\ pending.queue # <<>>
    /\ ~Head(pending.queue).throws
    /\ LET t == Head(pending.queue)
       IN  RunHarness(doAfter(Finally(BeforeStep(last, t), t), t), "ok")

\* the body throws: the finally block runs and the exception leaves the wrapper, so
\* the statements after the try statement are not reached
TestFails ==
    /\ pending.queue # <<>>
    /\ Head(pending.queue).throws
    /\ LET t == Head(pending.queue)
       IN  RunHarness(Finally(BeforeStep(last, t), t), "failed")

InitHarness ==
    /\ graph = EmptyGraph
    /\ actions = <<>>
    /\ trigger = "active"
    /\ inflight = {}
    /\ \E tests \in Registrations :
            /\ last = [op |-> "test", target |-> NoAction, result |-> "ok", tests |-> tests,
                       completedTests |-> NoCalls, beforeAll |-> NoCalls,
                       beforeEach |-> NoCalls, afterEach |-> NoCalls, afterAll |-> NoCalls]
            /\ pending = [queue |-> tests, done |-> 0, unrun |-> <<>>]
    /\ movieRel = TestProjectRel
    /\ migrator = Migrated

NextHarness ==
    \/ TestSucceeds
    \/ TestFails

SpecHarness == InitHarness /\ [][NextHarness]_vars

---------------------------------------------------------------------------
(* Properties *)

Committed == 1..Len(actions)

IsUndo(u) == actions[u].type = "UndoAction"

\* the latest runAction call was UndoAction{actionId: a}
UndoAttempted(a) == last.op = "UndoAction" /\ last.target = a

\* the Actions committed before the latest UndoAction call
CommittedBeforeAttempt ==
    IF last.result = "ok" THEN 1..(Len(actions) - 1) ELSE Committed

\* the graph the latest UndoAction call ran on
AttemptRanOn ==
    IF last.result = "ok" THEN actions[Len(actions)].before ELSE View(graph)

\* no Action committed between the commit of Action b and the latest UndoAction call
NothingCommittedSince(b) == \A c \in CommittedBeforeAttempt : c <= b

\* the latest runAction call was UndoAction{actionId: a}, and no Action committed
\* between the commit of a and that call
UndoneRightAway(a) == UndoAttempted(a) /\ NothingCommittedSince(a)

\* C1: undoing a committed Action that permanently deleted nothing, with no Action
\* committed since, commits and leaves the live nodes, their properties and their
\* relationships as they were immediately before that Action ran.
C1_UndoRestoresStateBefore ==
    \A a \in Committed :
        UndoneRightAway(a) /\ actions[a].deletedNodesCount = 0
            => /\ last.result = "ok"
               /\ LiveView(graph) = Live(actions[a].before)

\* the latest runAction call was UndoAction{actionId: u}, of an UndoAction u not
\* reverted before; u ran on the graph as its target left it, and the call ran on the
\* graph as u left it
Redone(u) ==
    /\ UndoAttempted(u)
    /\ IsUndo(u)
    /\ actions[u].before = actions[actions[u].actionId].after
    /\ AttemptRanOn = actions[u].after
    /\ \A r \in CommittedBeforeAttempt : ~(IsUndo(r) /\ actions[r].actionId = u)

\* C2: undoing the UndoAction that reverted A (redo), when each of the two ran on
\* the graph as the Action before it left it, commits and leaves the live nodes,
\* their properties and their relationships as they were immediately after A.
C2_RedoRestoresStateAfter ==
    \A u \in Committed :
        Redone(u) => /\ last.result = "ok"
                     /\ LiveView(graph) = Live(actions[actions[u].actionId].after)

\* A1, A2, undo A2, undo A1, redo A1, redo A2, with A1 and A2 changing something
C2_Witness ==
    /\ Len(actions) = 6
    /\ Redone(3)
    /\ actions[3].actionId = 2
    /\ actions[4].actionId = 1
    /\ actions[5].actionId = 4
    /\ actions[2].changed # {}
    /\ actions[1].changed # {}

\* C3: once an UndoAction targeting A has committed, every later UndoAction with the
\* same target fails with 'That action was already undone.' and changes nothing.
C3_SecondUndoFails ==
    [][\A a \in Committed :
         /\ \E u \in Committed : IsUndo(u) /\ actions[u].actionId = a
         /\ last' # last
         /\ last'.op = "UndoAction"
         /\ last'.target = a
         => /\ last'.result = AlreadyUndoneError
            /\ graph' = graph
            /\ actions' = actions]_vars

C3_Witness ==
    \E a \in Committed :
        /\ UndoAttempted(a)
        /\ last.result = AlreadyUndoneError
        /\ \E u \in Committed : IsUndo(u) /\ actions[u].actionId = a
        /\ actions[a].changed # {}

\* C4: an Action's revertedBy is null until an UndoAction targeting it commits; from
\* that commit on it is exactly that UndoAction, and the state in which the link
\* first shows is the state that shows the UndoAction's changes.
C4_RevertedByIsTheUndo ==
    /\ \A a \in Committed :
        /\ actions[a].revertedBy = {u \in Committed : IsUndo(u) /\ actions[u].actionId = a}
        /\ Cardinality(actions[a].revertedBy) <= 1
    /\ Len(actions) > 0 => View(graph) = actions[Len(actions)].after

C4_Witness ==
    \E a \in Committed :
        /\ actions[a].revertedBy = {Len(actions)}
        /\ actions[a].changed # {}
        /\ actions[Len(actions)].changed # {}
        /\ \E b \in Committed : ~IsUndo(b) /\ actions[b].revertedBy = {}

\* C5: an Action is reverted at most once, also when two UndoActions targeting it
\* run at the same time: the target never has two reverting Actions.
C5_RevertedAtMostOnce ==
    \A a \in Committed :
        Cardinality({u \in Committed : IsUndo(u) /\ actions[u].actionId = a}) <= 1

\* Action b deleted a relationship that Action a had created; r is that relationship
\* as a recorded it
DeletedCreatedRel(a, b, n, r) ==
    /\ r \in actions[a].details[n].newRel
    /\ \E d \in actions[b].details[n].deletedRel : d.id = r.id

RecordedValue(n, r) == [type |-> r.type, from |-> n, to |-> r.to, properties |-> r.props]

FranchiseNulledThenUndone(a) ==
    /\ UndoAttempted(a)
    /\ a + 1 \in Committed
    /\ NothingCommittedSince(a + 1)
    /\ actions[a].details["gotg"].created
    /\ actions[a + 1].details["gotg"].newRel = {}
    /\ \E r \in actions[a].details["gotg"].newRel : DeletedCreatedRel(a, a + 1, "gotg", r)

\* C7 as stated: in that scenario the undo fails with the error of the step that
\* re-creates deleted relationships.
C7_ReportsRecreateConflict ==
    \A a \in Committed : FranchiseNulledThenUndone(a) => last.result = RecreateError

\* C7: in that scenario the undo fails with the error of the step that deletes the
\* relationships the Action created: 'One of the relationships created by that
\* action cannot be deleted; cannot undo.'
C7_ReportsDeleteRelConflict ==
    \A a \in Committed : FranchiseNulledThenUndone(a) => last.result = DeleteRelError

C7_Witness ==
    /\ Len(actions) = 3
    /\ FranchiseNulledThenUndone(2)
    /\ actions[1].details["mcu"].created

\* C8: an Action whose transaction permanently deleted a node is never reverted, and
\* in every later state UndoAction fails on it with 'Cannot undo an Action that
\* permanently deleted data.'; deletedNodesCount counts the nodes that are gone, so
\* it is 0 for an Action that only soft-deleted, which UndoAction then does not
\* reject for that reason.
C8_PermanentDeletionIsFinal ==
    /\ \A a \in Committed :
        /\ actions[a].deletedNodesCount =
                Cardinality({n \in NodeIds : /\ actions[a].before.nodes[n].exists
                                             /\ ~actions[a].after.nodes[n].exists})
        /\ actions[a].deletedNodesCount > 0
            => /\ actions[a].revertedBy = {}
               /\ UndoActionApply(graph, actions, a).error = PermanentlyDeletedError
        /\ actions[a].deletedNodesCount = 0
            => UndoActionApply(graph, actions, a).error # PermanentlyDeletedError
    /\ \A a \in Committed :
        UndoAttempted(a) => (last.result = PermanentlyDeletedError
                                <=> actions[a].deletedNodesCount > 0)

C8_Witness ==
    \E a, b \in Committed :
        /\ UndoAttempted(a)
        /\ last.result = PermanentlyDeletedError
        /\ actions[a].deletedNodesCount = 1
        /\ "DeletedVNode" \in actions[b].details["gotg"].addedLabel
        /\ actions[b].deletedNodesCount = 0
        /\ actions[b].revertedBy # {}

\* C9: for every Action the runner committed, every declared node that exists has a
\* MODIFIED relationship from it, and every node its transaction structurally
\* changed, live or soft-deleted, is among the declared ones.
C9_ChangedNodesAreDeclared ==
    \A a \in Committed :
        actions[a].type # "raw"
            => /\ \A n \in actions[a].declared :
                    actions[a].after.nodes[n].exists => n \in actions[a].modified
               /\ actions[a].changed \subseteq actions[a].declared

\* C10: while the trigger is active, a write transaction that commits created exactly
\* one Action node; one that created none or two leaves no write behind.
C10_OneActionPerWrite ==
    [][trigger = "active" /\ (graph' # graph \/ actions' # actions)
            => Len(actions') = Len(actions) + 1]_vars

C10_Witness ==
    /\ trigger = "active"
    /\ last = Outcome("_restrictedWrite", NoAction, OneActionError)
    /\ \E a \in Committed : actions[a].type = "GenericCypherAction"
    /\ \E a \in Committed : actions[a].type = "raw"


\* the steps a to d of UndoAction{a}, on the committed graph
UndoStepsAtoD(a) ==
    LET changes == getActionChanges(actions[a])
    IN  UndoDeleteRelationships(
            UndoRevertProperties(
                UndoRecreateRelationships(UndoRestoreSoftDeleted(graph, changes), changes),
                changes),
            changes)

\* the Action a was not reverted when the latest UndoAction call began
NotRevertedBefore(a) == actions[a].revertedBy \cap CommittedBeforeAttempt = {}

\* the property changes of pre-existing nodes that Action a recorded: {id, key, old, new}
RecordedPropertyChanges(a) ==
    {[id |-> mn.id, key |-> c.key, old |-> c.old, new |-> c.new] :
        <<mn, c>> \in {x \in getActionChanges(actions[a]).modifiedNodes \X
                        (UNION {m.properties : m \in getActionChanges(actions[a]).modifiedNodes}) :
                            x[2] \in x[1].properties}}

\* the recorded change still held when the latest UndoAction call began
StillAtNewValue(chg) ==
    /\ AttemptRanOn.nodes[chg.id].exists
    /\ "VNode" \in AttemptRanOn.nodes[chg.id].labels
    /\ AttemptRanOn.nodes[chg.id].props[chg.key] = chg.new

\* C11 (as claimed): no committed transaction changes a property of a relationship
\* that exists before and after it; every such attempt is aborted.
C11_RelPropertiesNeverEdited ==
    [][\A r \in graph.rels : \A r2 \in graph'.rels : r2.id = r.id => r2.props = r.props]_vars

\* C12: a call of UndoAction that fails with a conflict changes neither the graph nor
\* the committed Actions (no UndoAction record, no reverted-by reference), whatever
\* its earlier steps wrote.
C12_FailedUndoLeavesNothing ==
    [][(last'.op = "UndoAction" /\ last'.result \in UndoConflictErrors)
            => (graph' = graph /\ actions' = actions)]_vars

\* an UndoAction failed at the created-nodes step, after its earlier steps changed
\* the graph in its transaction
C12_Witness ==
    /\ last.op = "UndoAction"
    /\ last.result \in {CreatedDeletedError, NewPropertyError, PropertyChangedError}
    /\ UndoStepsAtoD(last.target) # graph
    /\ \A a \in Committed : ~IsUndo(a) /\ actions[a].revertedBy = {}

\* C13: when the apply() of the Action that runAs runs next throws, the call ends with
\* that very error, and the graph and the committed Actions (with their MODIFIED
\* links) stay as they were.
C13_ApplyErrorPropagates ==
    [][(pending.queue # <<>> /\ ApplyOf(Head(pending.queue)).error # "none")
            => /\ last'.result = ApplyOf(Head(pending.queue)).error
               /\ last'.op = Head(pending.queue).type
               /\ graph' = graph
               /\ actions' = actions
               /\ pending'.queue = <<>>]_vars

\* a runAs call ended with the conflict error of an UndoAction whose transaction had
\* written to the graph
C13_Witness ==
    /\ pending.queue = <<>>
    /\ last.op = "UndoAction"
    /\ last.result \in UndoConflictErrors
    /\ UndoActionApply(graph, actions, last.target).g # graph

\* C14: runAs runs the Actions of the call in the order given, one runAction call
\* each: a step either commits the first Action not yet run, as one more Action on top
\* of those committed so far, and (after the last one) leaves its result as the result
\* of the call; or it fails, ends the call, and leaves the graph and every Action
\* committed so far, those of this call included, as they are.
C14_RunAsInOrder ==
    [][pending.queue # <<>> =>
        LET action == Head(pending.queue)
            n == Len(actions)
        IN  \/ /\ pending' = [pending EXCEPT !.queue = Tail(@), !.done = @ + 1]
               /\ Len(actions') = n + 1
               /\ actions'[n + 1].type = action.type
               /\ actions'[n + 1].actionId = action.actionId
               /\ \A i \in 1..n : actions'[i].after = actions[i].after
               /\ graph' = ApplyOf(action).g
               /\ last' = Outcome(action.type, action.actionId, "ok")
            \/ /\ pending'.queue = <<>>
               /\ pending'.done = pending.done
               /\ last'.result # "ok"
               /\ actions' = actions
               /\ graph' = graph]_vars

\* a runAs call ended with an error after at least one of its Actions committed
C14_Witness ==
    /\ pending.queue = <<>>
    /\ pending.done >= 1
    /\ last.result # "ok"
    /\ actions[Len(actions)].changed # {}

\* C15 (as claimed): when one of the properties that Action a changed no longer holds
\* the value a gave it, UndoAction{a} fails with a conflict error (and so reverts no
\* property), whatever the state of the other properties a changed.
C15_StalePropertyFailsUndo ==
    \A a \in Committed :
        (/\ UndoAttempted(a)
         /\ a \in CommittedBeforeAttempt
         /\ \E chg \in RecordedPropertyChanges(a) : ~StillAtNewValue(chg))
            => last.result \in UndoConflictErrors

\* C16 (as claimed): when every property that Action a changed on pre-existing entities,
\* one or more, still holds the value a gave it, UndoAction{a} of the not yet reverted
\* a commits and every such property is back at its old value.
C16_UnchangedPropertiesRevert ==
    \A a \in Committed :
        (/\ UndoAttempted(a)
         /\ a \in CommittedBeforeAttempt
         /\ NotRevertedBefore(a)
         /\ RecordedPropertyChanges(a) # {}
         /\ \A chg \in RecordedPropertyChanges(a) : StillAtNewValue(chg))
            => /\ last.result = "ok"
               /\ \A chg \in RecordedPropertyChanges(a) :
                        graph.nodes[chg.id].props[chg.key] = chg.old

\* C17 (as claimed): UndoAction{a} of an Action that created nodes, all of them still
\* live, commits only if every created node has the properties it was created with, and
\* fails with a "modified since creation" error only if one of them has not.
C17_CreatedNodesComparedByProperties ==
    \A a \in Committed :
        (/\ UndoAttempted(a)
         /\ a \in CommittedBeforeAttempt
         /\ NotRevertedBefore(a)
         /\ getActionChanges(actions[a]).createdNodes # {}
         /\ \A cn \in getActionChanges(actions[a]).createdNodes :
                /\ AttemptRanOn.nodes[cn.id].exists
                /\ "VNode" \in AttemptRanOn.nodes[cn.id].labels)
            => LET modified ==
                    \E cn \in getActionChanges(actions[a]).createdNodes :
                        AttemptRanOn.nodes[cn.id].props # cn.properties
               IN  /\ modified => last.result # "ok"
                   /\ ~modified => last.result \notin {NewPropertyError, PropertyChangedError}

\* an entity that Action a created is not live (soft-deleted, or deleted for good)
CreatedNodeGone(a) ==
    \E cn \in getActionChanges(actions[a]).createdNodes : ~IsLive(graph, cn.id)

\* Action a recorded nothing but created nodes
CreatedNodesOnly(a) ==
    /\ getActionChanges(actions[a]).deletedNodesCount = 0
    /\ getActionChanges(actions[a]).modifiedNodes = {}
    /\ getActionChanges(actions[a]).createdRelationships = {}
    /\ getActionChanges(actions[a]).deletedRelationships = {}

\* C18 (as claimed): when an entity created by Action a is no longer live, UndoAction{a}
\* fails with the "has since been deleted" error.
C18_ReportsCreatedDeleted ==
    [][\A a \in Committed :
        (/\ last' # last
         /\ last'.op = "UndoAction" /\ last'.target = a
         /\ actions[a].revertedBy = {}
         /\ CreatedNodeGone(a))
            => last'.result = CreatedDeletedError]_vars

\* C18: when an entity created by Action a is no longer live, UndoAction{a} of the not
\* yet reverted a fails with a conflict error that is never one of the two "modified
\* since creation" errors, and that is the "has since been deleted" error when a
\* recorded nothing but created nodes; every other entity that a created stays as it
\* was, live if it was live.
C18_DeletedCreatedNodeFailsUndo ==
    [][\A a \in Committed :
        (/\ last' # last
         /\ last'.op = "UndoAction" /\ last'.target = a
         /\ actions[a].revertedBy = {}
         /\ CreatedNodeGone(a))
            => /\ last'.result \in UndoConflictErrors \ {NewPropertyError, PropertyChangedError}
               /\ CreatedNodesOnly(a) => last'.result = CreatedDeletedError
               /\ \A cn \in getActionChanges(actions[a]).createdNodes :
                        graph'.nodes[cn.id] = graph.nodes[cn.id]
               /\ actions' = actions]_vars

\* UndoAction failed with "has since been deleted" for an Action that created two
\* entities, one of them still live
C18_Witness ==
    /\ last.op = "UndoAction"
    /\ last.result = CreatedDeletedError
    /\ \E cn \in getActionChanges(actions[last.target]).createdNodes : IsLive(graph, cn.id)
    /\ \E cn \in getActionChanges(actions[last.target]).createdNodes : ~IsLive(graph, cn.id)

\* how many relationships of value v a view holds, and how many between live entities
CountOf(view, v) ==
    IF \E c \in view.rels : c.value = v
    THEN (CHOOSE c \in view.rels : c.value = v).count
    ELSE 0

LiveCountOf(view, v) == CountOf(Live(view), v)

\* how many of the relationship records rs have the value v
RecordCount(rs, v) == Cardinality({r \in rs : RelValue(r) = v})

RecordValues(rs) == {RelValue(r) : r \in rs}

\* node n is a live entity when the re-creation step of UndoAction{a} runs: it was
\* live, or it was soft-deleted by a and the step before restored it
LiveAtRecreation(a, n) ==
    /\ AttemptRanOn.nodes[n].exists
    /\ \/ "VNode" \in AttemptRanOn.nodes[n].labels
       \/ n \in getActionChanges(actions[a]).softDeletedNodes

\* C19: UndoAction{a} of a not yet reverted Action a that deleted relationships (and no
\* entity for good): when both ends of each of them are live entities at the re-creation
\* step, the undo does not fail with the re-creation error, and if it commits, the
\* graph holds, per relationship value (type, endpoints, properties), as many more as a
\* deleted and as many fewer as a created; otherwise it fails with the re-creation
\* error.
C19_DeletedRelationshipsRecreated ==
    \A a \in Committed :
        LET changes == getActionChanges(actions[a])
        IN  (/\ UndoAttempted(a)
             /\ a \in CommittedBeforeAttempt
             /\ NotRevertedBefore(a)
             /\ changes.deletedNodesCount = 0
             /\ changes.deletedRelationships # {})
                => IF \A dr \in changes.deletedRelationships :
                            LiveAtRecreation(a, dr.from) /\ LiveAtRecreation(a, dr.to)
                   THEN /\ last.result # RecreateError
                        /\ last.result = "ok" =>
                                \A v \in RecordValues(changes.deletedRelationships) :
                                    CountOf(View(graph), v) =
                                        CountOf(AttemptRanOn, v)
                                        + RecordCount(changes.deletedRelationships, v)
                                        - RecordCount(changes.createdRelationships, v)
                   ELSE last.result = RecreateError

\* UndoAction failed with the re-creation error: an end of a relationship that the
\* target deleted is not a live entity
C19_Witness ==
    /\ last.op = "UndoAction"
    /\ last.result = RecreateError
    /\ \E dr \in getActionChanges(actions[last.target]).deletedRelationships :
            ~IsLive(graph, dr.to) /\ IsLive(graph, dr.from)

\* UndoAction re-created a relationship with the property it had when it was deleted
C19_RecreatedWithProperties ==
    /\ last.op = "UndoAction"
    /\ last.result = "ok"
    /\ \E dr \in getActionChanges(actions[last.target]).deletedRelationships :
            /\ dr.properties["role"] = "lead"
            /\ CountOf(View(graph), RelValue(dr)) = 1
            /\ CountOf(AttemptRanOn, RelValue(dr)) = 0

\* C20 (as claimed): UndoAction{a} of a not yet reverted Action a that recorded nothing
\* but created relationships: when, for every value (type, endpoints, properties), at
\* least as many relationships of that value exist between live entities as a recorded,
\* the undo commits and the graph holds exactly that many fewer of each value;
\* otherwise it fails with a conflict error.
C20_DeletesOnePerRecordedCreation ==
    \A a \in Committed :
        LET changes == getActionChanges(actions[a])
            values == RecordValues(changes.createdRelationships)
        IN  (/\ UndoAttempted(a)
             /\ a \in CommittedBeforeAttempt
             /\ NotRevertedBefore(a)
             /\ changes.createdRelationships # {}
             /\ changes.deletedRelationships = {}
             /\ changes.createdNodes = {}
             /\ changes.modifiedNodes = {}
             /\ changes.deletedNodesCount = 0)
                => IF \A v \in values :
                        LiveCountOf(AttemptRanOn, v) >= RecordCount(changes.createdRelationships, v)
                   THEN /\ last.result = "ok"
                        /\ \A v \in values :
                                CountOf(View(graph), v) =
                                    CountOf(AttemptRanOn, v)
                                    - RecordCount(changes.createdRelationships, v)
                   ELSE last.result \in UndoConflictErrors

\* C21: the inverse steps run in the order of the source.  UndoAction{a}, right after
\* the not yet reverted a, of an Action that soft-deleted entities (and created none):
\* it commits, the entities are live again and every relationship a deleted exists
\* again.  Of an Action that created an entity and relationships from it: the step that
\* deletes the relationships finds them (it never raises its conflict), and after it
\* the relationships are gone while the entity is still live.
C21_InverseStepsInOrder ==
    \A a \in Committed :
        LET changes == getActionChanges(actions[a])
        IN  (/\ UndoneRightAway(a)
             /\ a \in CommittedBeforeAttempt
             /\ NotRevertedBefore(a)
             /\ changes.deletedNodesCount = 0)
                => /\ (changes.softDeletedNodes # {} /\ changes.createdNodes = {})
                        => /\ last.result = "ok"
                           /\ \A n \in changes.softDeletedNodes : IsLive(graph, n)
                           /\ \A dr \in changes.deletedRelationships :
                                    CountOf(View(graph), RelValue(dr)) >= 1
                   /\ (\E cr \in changes.createdRelationships :
                            \E cn \in changes.createdNodes : cn.id = cr.from)
                        => /\ last.result # DeleteRelError
                           /\ last.result # "ok" =>
                                \A cr \in changes.createdRelationships :
                                    /\ CountOf(View(UndoStepsAtoD(a)), RelValue(cr)) = 0
                                    /\ IsLive(UndoStepsAtoD(a), cr.from)

\* UndoAction{a} committed right after an Action a that soft-deleted an entity and
\* deleted a relationship from it
C21_Witness ==
    /\ last.op = "UndoAction"
    /\ last.result = "ok"
    /\ UndoneRightAway(last.target)
    /\ \E dr \in getActionChanges(actions[last.target]).deletedRelationships :
            /\ dr.from \in getActionChanges(actions[last.target]).softDeletedNodes
            /\ IsLive(graph, dr.from)

\* C22: no UndoAction is rejected for modifying a node it did not mark as modified,
\* and every node whose labels, properties or outgoing relationships a committed
\* UndoAction changed is among the modifiedNodes it declared.
C22_UndoDeclaresWhatItChanges ==
    /\ last.op = "UndoAction" => last.result # NotMarkedError
    /\ \A u \in Committed :
            IsUndo(u) => /\ actions[u].changed \subseteq actions[u].declared
                         /\ actions[u].changed \subseteq actions[u].modified

\* a committed UndoAction re-created or deleted a relationship of a node it declared
C22_Witness ==
    \E u \in Committed :
        /\ IsUndo(u)
        /\ \E n \in actions[u].changed :
                actions[u].details[n].newRel # {} \/ actions[u].details[n].deletedRel # {}

WouldCreate(name, declared) ==
    createdRelationships(graph,
        GenericCypherApply(graph, ActionInputs[name], declared).g)

\* the names of the inputs whose cypher only creates relationships
LinkInputNames == {"LinkOnce", "LinkTwice", "LinkWithRole"}

\* C29: an Action that only creates relationships from a live entity and declares
\* that entity alone commits; and in every committed Action the newRel entries of a
\* touched-link are relationships that start at the entity of that link, so that an
\* entity that is only the end of the relationships created has no entry (and, when
\* not declared, no touched-link).
C29_RelationshipMarksStartOnly ==
    /\ \A name \in LinkInputNames :
            LET declared == ActionInputs[name].modifiedNodes
                applied == GenericCypherApply(graph, ActionInputs[name], declared)
            IN  (/\ WouldCreate(name, declared) # {}
                 /\ \A r \in WouldCreate(name, declared) : declared = {r.from} /\ r.to # r.from)
                    => /\ RunnerVerdict(graph, applied) = "ok"
                       /\ \A r \in WouldCreate(name, declared) :
                            r.to \notin ModifiedLinks(applied.g, declared)
    /\ \A a \in Committed :
            \A n \in NodeIds :
                /\ actions[a].details[n].newRel # {} => n \in actions[a].modified
                /\ \A r \in actions[a].details[n].newRel :
                        /\ r.to # n
                        /\ \E c \in actions[a].after.rels :
                                c.value = [type |-> r.type, from |-> n, to |-> r.to,
                                           properties |-> r.props]

\* a committed Action created a relationship with a property from an entity it
\* declared to an entity it has no touched-link to
C29_Witness ==
    \E a \in Committed :
        \E n \in actions[a].modified :
            \E r \in actions[a].details[n].newRel :
                /\ r.props # NoRelProps
                /\ r.to \notin actions[a].modified
                /\ actions[a].details[r.to] = NoChangeDetails

\* C30 (as claimed): newProp/oldProp entries are recorded only for entities that
\* existed before the transaction; the touched-link of an entity created in the
\* transaction carries the created detail and no property entries.
C30_NoPropertyDetailsForCreated ==
    \A a \in Committed :
        \A n \in NodeIds :
            /\ actions[a].details[n].created => actions[a].details[n].props = {}
            /\ actions[a].details[n].props # {} => actions[a].before.nodes[n].exists

\* the relationships of type relType that leave n in a view, with their counts
OutgoingOf(view, n, relType) ==
    {c \in view.rels : c.value.from = n /\ c.value.type = relType}

RECURSIVE TotalCount(_)
TotalCount(cs) ==
    IF cs = {} THEN 0
    ELSE LET c == CHOOSE x \in cs : TRUE IN c.count + TotalCount(cs \ {c})

\* what each Cardinality asks of a set of outgoing relationships
WithinCardinality(cardinality, out) ==
    CASE cardinality = ToOneRequired -> TotalCount(out) = 1
      [] cardinality = ToOneOrNone -> TotalCount(out) <= 1
      [] cardinality = ToManyUnique ->
            \A t \in NodeIds : TotalCount({c \in out : c.value.to = t}) <= 1
      [] OTHER -> TRUE

\* C28 (as claimed): after a committed Action every entity it declared has, for each
\* relationship type its VNode type declares, outgoing relationships within the
\* type's cardinality.
C28_DeclaredWithinCardinality ==
    \A a \in Committed :
        \A n \in actions[a].modified :
            \A relType \in RelTypesOf(n) :
                WithinCardinality(CardinalityOf(relType),
                                  OutgoingOf(actions[a].after, n, relType))

\* C28 (amended): after a committed Action every live entity it declared has, for
\* each relationship type its VNode type declares, outgoing relationships to live
\* entities within the type's cardinality; relationships to soft-deleted entities do
\* not count.
C28_LiveTargetsWithinCardinality ==
    \A a \in Committed :
        \A n \in actions[a].modified :
            actions[a].after.nodes[n].exists /\ "VNode" \in actions[a].after.nodes[n].labels
                => \A relType \in RelTypesOf(n) :
                        WithinCardinality(CardinalityOf(relType),
                                          OutgoingOf(Live(actions[a].after), n, relType))

\* a committed Action left an entity it declared with two relationships of a type
\* restricted to one, both to a soft-deleted entity
C28_Witness ==
    \E a \in Committed :
        \E n \in actions[a].modified :
            /\ movieRel["FRANCHISE_IS"] \in {ToOneOrNone, ToManyUnique}
            /\ TotalCount(OutgoingOf(actions[a].after, n, "FRANCHISE_IS")) = 2
            /\ OutgoingOf(Live(actions[a].after), n, "FRANCHISE_IS") = {}
            /\ "VNode" \in actions[a].after.nodes[n].labels

\* the inputs that assign a slugId: the entity and the slugId
SlugAssignments ==
    {[name |-> "SetMovieSlug", node |-> "gotg", slugId |-> "s"],
     [name |-> "ChangeMovieSlug", node |-> "gotg", slugId |-> "t"],
     [name |-> "SetFranchiseSlug", node |-> "mcu", slugId |-> "s"]}

\* the verdict on the Action of a slug assignment, run on the graph as it is
AssignmentVerdict(asg) ==
    RunnerVerdict(graph,
        GenericCypherApply(graph, ActionInputs[asg.name], ActionInputs[asg.name].modifiedNodes))

\* no two SlugId nodes have the same slugId
OneEntityPerAlias ==
    \A s1, s2 \in graph.slugIds : s1.slugId = s2.slugId => s1 = s2

\* every alias that existed after some committed Action
AliasesEverAssigned == UNION {actions[a].slugIds : a \in Committed}

\* C24 (as claimed): an alias identifies at most one entity; an alias that was ever
\* assigned to X never identifies another entity, and the Action that assigns to a
\* live entity Y a slug ever used as an alias of another entity fails.
C24_AliasNeverTransferred ==
    /\ OneEntityPerAlias
    /\ \A old \in AliasesEverAssigned :
            /\ \A s \in graph.slugIds : s.slugId = old.slugId => s.node = old.node
            /\ \A asg \in SlugAssignments :
                    (/\ asg.slugId = old.slugId
                     /\ asg.node # old.node
                     /\ IsLive(graph, asg.node))
                        => AssignmentVerdict(asg) # "ok"

\* C24 (amended): an alias identifies exactly one entity, live or soft-deleted; an
\* alias assigned to X keeps identifying X for as long as X is in the store, whether
\* X changed its slug or was soft-deleted; and the Action that assigns to a live
\* entity Y a slug that is an alias of another entity fails on the constraint.
C24_AliasKeptWhileEntityExists ==
    /\ OneEntityPerAlias
    /\ \A s \in graph.slugIds : s.node \in NodeIds /\ graph.nodes[s.node].exists
    /\ \A old \in AliasesEverAssigned :
            graph.nodes[old.node].exists => old \in graph.slugIds
    /\ \A s \in graph.slugIds :
            \A asg \in SlugAssignments :
                (/\ asg.slugId = s.slugId
                 /\ asg.node # s.node
                 /\ IsLive(graph, asg.node))
                    => AssignmentVerdict(asg) = ConstraintError

\* after a committed UndoAction the movie no longer has the slugId "s" (the undo took
\* it back, or soft-deleted the movie), its alias "s" is still there, and the Action
\* that gives "s" to the live franchise fails
C24_Witness ==
    /\ last.op = "UndoAction"
    /\ last.result = "ok"
    /\ [slugId |-> "s", node |-> "gotg"] \in graph.slugIds
    /\ SlugIdOf(graph, "gotg") # "s" \/ IsSoftDeleted(graph, "gotg")
    /\ IsLive(graph, "mcu")
    /\ AssignmentVerdict([name |-> "SetFranchiseSlug", node |-> "mcu", slugId |-> "s"])
            = ConstraintError

\* s is the beginning of t
IsPrefix(s, t) == Len(s) <= Len(t) /\ s = SubSeq(t, 1, Len(s))

\* a forward procedure ran in this step: the migration applied
AppliedInStep ==
    IF Len(migrator'.applied) = Len(migrator.applied) + 1
    THEN {migrator'.applied[Len(migrator'.applied)]}
    ELSE {}

\* a backward procedure ran in this step: the migration reversed
ReversedInStep ==
    IF Len(migrator'.applied) + 1 = Len(migrator.applied)
    THEN {migrator.applied[Len(migrator.applied)]}
    ELSE {}

\* C25: a forward procedure runs only for a migration that is not applied and whose
\* dependsOn are all applied, and of the migrations for which that holds it is the
\* one declared first; so the migrations are applied in the one order _root, vnode,
\* slugIdTrigger, systemUser, trackActionChanges.
C25_ForwardInDependencyOrder ==
    [][/\ \A id \in AppliedInStep :
            /\ id \notin AppliedIds(migrator)
            /\ dependsOn[id] \subseteq AppliedIds(migrator)
            /\ \A other \in MigrationIds \ AppliedIds(migrator) :
                    dependsOn[other] \subseteq AppliedIds(migrator)
                        => Position(id) <= Position(other)
       /\ IsPrefix(migrator'.applied,
                   <<"_root", "vnode", "slugIdTrigger", "systemUser", "trackActionChanges">>)
       /\ Cardinality(AppliedIds(migrator')) = Len(migrator'.applied)]_vars

\* runMigrations() has applied slugIdTrigger, declared before trackActionChanges,
\* when both were ready, and goes on
C25_Witness ==
    /\ migrator.op = "runMigrations"
    /\ migrator.applied = <<"_root", "vnode", "slugIdTrigger">>
    /\ "trackActionChanges" \in Ready(AppliedIds(migrator))

\* the store right after runMigrations() on an empty database
CleanMigratedStore ==
    /\ \A n \in NodeIds : ~graph.nodes[n].exists
    /\ graph.rels = {}
    /\ graph.slugIds = {}
    /\ trigger = "active"
    /\ migrator = Migrated

\* C26 (as claimed): a backward procedure runs only for a migration that no applied
\* migration depends on; and once every migration is applied again and no Action has
\* run since, the store is in the migrated state of an empty database.
C26_ReverseThenForwardIsClean ==
    [][/\ \A id \in ReversedInStep :
            \A other \in AppliedIds(migrator') : id \notin dependsOn[other]
       /\ (/\ migrator'.op = "idle"
            /\ migrator'.applied = MigrationOrder
            /\ actions' = <<>>)
                => CleanMigratedStore']_vars

\* C27: outside _restrictedAllowWritesWithoutAction an installed trackActionChanges
\* trigger is active, in particular once runMigrations() has applied the
\* trackActionChanges migration and returned or thrown; while someCode runs an
\* installed trigger is paused, and the write of resetDBToSnapshot, which has no
\* Action, commits.
C27_TriggerResumedAfterwards ==
    /\ migrator.op = "idle" => trigger \in {"absent", "active"}
    /\ (migrator.op = "idle" /\ "trackActionChanges" \in AppliedIds(migrator))
            => trigger = "active"
    /\ migrator.op # "idle" => trigger \in {"absent", "paused"}
    /\ last.op = "resetDBToSnapshot" => last.result = "ok"

\* after runMigrations() installed the trigger, resetDBToSnapshot wrote without an
\* Action and finished, and the trigger is active
C27_Witness ==
    /\ migrator.op = "idle"
    /\ migrator.applied = MigrationOrder
    /\ last = Outcome("resetDBToSnapshot", NoAction, "ok")
    /\ trigger = "active"


\* the UndoAction u that reverted Action a was itself reverted by r, both before the
\* latest runAction call
RedoneBeforeAttempt(a, u, r) ==
    /\ {a, u, r} \subseteq CommittedBeforeAttempt
    /\ IsUndo(u) /\ actions[u].actionId = a
    /\ IsUndo(r) /\ actions[r].actionId = u

\* C35: the reverted-by link of an Action is never removed: once A was undone by U
\* and U was undone in turn (redo), A is still linked to U and UndoAction{A} still
\* fails with 'That action was already undone.'; the call that is not refused with
\* that error is the undo of the redo Action.
C35_RevertedByNeverRemoved ==
    \A a \in Committed : \A u \in Committed : \A r \in Committed :
        RedoneBeforeAttempt(a, u, r)
            => /\ u \in actions[a].revertedBy
               /\ UndoAttempted(a) => last.result = AlreadyUndoneError
               /\ UndoAttempted(r) /\ NotRevertedBefore(r)
                      => last.result # AlreadyUndoneError

C35_Witness ==
    \E a \in Committed : \E u \in Committed : \E r \in Committed :
        /\ RedoneBeforeAttempt(a, u, r)
        /\ UndoAttempted(a)
        /\ last.result = AlreadyUndoneError
        /\ actions[a].changed # {}
        /\ View(graph) = actions[a].after


\* Action b deleted a relationship that Action a had created
RemovedRelationshipOf(a, b) ==
    \E cr \in getActionChanges(actions[a]).createdRelationships :
        \E dr \in getActionChanges(actions[b]).deletedRelationships : dr.rid = cr.rid

\* before the latest runAction call: a committed, then b, which removed a relationship
\* a had created (UndoAction{a} conflicts from there on), then the UndoAction ub of b,
\* and nothing else since a
ConflictUndone(a, b, ub) ==
    /\ {a, b, ub} \subseteq CommittedBeforeAttempt
    /\ a < b /\ b < ub
    /\ ~IsUndo(a) /\ ~IsUndo(b)
    /\ RemovedRelationshipOf(a, b)
    /\ IsUndo(ub) /\ actions[ub].actionId = b
    /\ \A c \in CommittedBeforeAttempt : c > a => c \in {b, ub}

\* C36: a failed UndoAction does not consume its target: A is not marked reverted by
\* it, and once the Action that removed the relationship A created has been undone
\* (the relationship is back with the same properties), UndoAction{A} commits.
C36_UndoSucceedsOnceConflictUndone ==
    \A a \in Committed : \A b \in Committed : \A ub \in Committed :
        ConflictUndone(a, b, ub)
            => /\ actions[a].revertedBy \cap CommittedBeforeAttempt = {}
               /\ UndoAttempted(a) => last.result = "ok"

\* the same for the Actions that created no node: this much holds
C36_HoldsWithoutCreatedNodes ==
    \A a \in Committed : \A b \in Committed : \A ub \in Committed :
        ConflictUndone(a, b, ub) /\ getActionChanges(actions[a]).createdNodes = {}
            => /\ actions[a].revertedBy \cap CommittedBeforeAttempt = {}
               /\ UndoAttempted(a) => last.result = "ok"

C36_HoldsWitness ==
    \E a \in Committed : \E b \in Committed : \E ub \in Committed :
        /\ ConflictUndone(a, b, ub) /\ getActionChanges(actions[a]).createdNodes = {}
        /\ UndoAttempted(a) /\ last.result = "ok"


\* the relationships of g that start at a live entity and point to a soft-deleted one
PointingToSoftDeleted(g) ==
    {r \in g.rels : IsLive(g, r.from) /\ IsSoftDeleted(g, r.to)}

\* C37: undo never leaves a live entity with a relationship pointing to a
\* soft-deleted entity: the commit of an UndoAction adds no relationship from a live
\* entity to a soft-deleted one (where the target created an entity that a later
\* relationship points to, the UndoAction fails instead of soft-deleting it).
C37_UndoLeavesNoRelationshipToSoftDeleted ==
    [][(Len(actions') > Len(actions) /\ last'.op = "UndoAction")
            => PointingToSoftDeleted(graph') \subseteq PointingToSoftDeleted(graph)]_vars

\* the case C37 names: Action a created entity e and no relationship to it, and
\* UndoAction{a} was called on a graph where e is live and a relationship points
\* from another live entity to e
LaterRelationshipToCreated(a, e) ==
    /\ \E cn \in getActionChanges(actions[a]).createdNodes : cn.id = e
    /\ \A cr \in getActionChanges(actions[a]).createdRelationships : cr.to # e
    /\ NotRevertedBefore(a)
    /\ UndoAttempted(a)
    /\ \E c \in Live(AttemptRanOn).rels : c.value.to = e /\ c.value.from # e

\* in that case the UndoAction does fail with a conflict, and e stays live
C37_CreatedTargetUndoFails ==
    \A a \in Committed : \A e \in NodeIds :
        LaterRelationshipToCreated(a, e)
            => last.result \in UndoConflictErrors /\ IsLive(graph, e)

C37_CreatedTargetWitness ==
    \E a \in Committed : \E e \in NodeIds :
        LaterRelationshipToCreated(a, e) /\ last.result \in UndoConflictErrors


\* the runAction call of the next Action of the runAs call under way fails
NextActionFails ==
    /\ pending.queue # <<>>
    /\ RunnerVerdict(graph, ApplyOf(Head(pending.queue))) # "ok"

\* C38: when Action ak of runAs(actor, a1, ..., an) fails (its apply() throws, or its
\* validation or the change-capture trigger rejects it), the call rejects with the
\* error of ak and none of a(k+1)..an is run: nothing of the call is left to run, and
\* no Action commits and nothing is written until another call is made.
C38_RunAsStopsAtFirstFailure ==
    [][/\ NextActionFails
            => /\ last' = Outcome(Head(pending.queue).type, Head(pending.queue).actionId,
                                  RunnerVerdict(graph, ApplyOf(Head(pending.queue))))
               /\ pending'.queue = <<>>
               /\ pending'.unrun = Tail(pending.queue)
               /\ actions' = actions
       /\ pending.queue = <<>>
            => /\ actions' = actions
               /\ graph' = graph
               /\ last' = last]_vars

\* a runAs call of two Actions was rejected with the error of the first, the second
\* one was left unrun and would have committed
C38_Witness ==
    /\ pending.queue = <<>>
    /\ pending.done = 0
    /\ pending.unrun # <<>>
    /\ last.result # "ok"
    /\ RunnerVerdict(graph, ApplyOf(pending.unrun[1])) = "ok"


\* the Action that the step commits
JustCommitted == actions'[Len(actions')]

ChangeCaptured(a) ==
    actions[a].changed # {} => \E n \in NodeIds : actions[a].details[n] # NoChangeDetails

\* every committed Action of the application had its changes captured
C39_ActionsCaptured ==
    \A a \in Committed : actions[a].type = "GenericCypherAction" => ChangeCaptured(a)

\* while the someCode of any call runs the trigger is paused, and a write of
\* someCode without an Action is not rejected
C39_PausedWhileSomeCodeRuns ==
    /\ inflight # {} => trigger = "paused"
    /\ (inflight # {} /\ last.op = "_restrictedWrite") => last.result # OneActionError

\* C39: _restrictedAllowWritesWithoutAction keeps the trigger paused for the whole
\* of its someCode even when two calls overlap (the trigger is not resumed while the
\* someCode of any call still runs), and an Action that runs during a paused period
\* still has its changes captured.
C39_PausedForWholeCallback ==
    C39_PausedWhileSomeCodeRuns /\ C39_ActionsCaptured


\* how many of the relationships rs have the target and the properties of spec
SpecCount(rs, spec) == Cardinality({r \in rs : RelSpec(r) = spec})

\* how many entries of the list `to` are spec
ListCount(to, spec) == Cardinality({i \in DOMAIN to : to[i] = spec})

ToLists == SeqsUpTo(HelperSpecs, MaxTo) \cup {<<>>}

\* C32: after updateToManyRelationship(from, rel, to) the relationships of that type
\* from the node are, as a multiset of (target, properties), the list `to`, duplicates
\* and pre-existing identical relationships included; a relationship is not deleted
\* while an identical one is created; prevTo is every relationship that existed.
C32_ToManyMatchesRequestedMultiset ==
    \A to \in ToLists :
        LET res == updateToManyRelationship(graph, "gotg", "RELATED_TO", to)
            before == HelperMatch(graph, "gotg", "RELATED_TO")
            after == HelperMatch(res.g, "gotg", "RELATED_TO")
        IN  res.error = "none"
                => /\ \A spec \in HelperSpecs : SpecCount(after, spec) = ListCount(to, spec)
                   /\ \A r \in before \ after :
                        \A r2 \in after \ before : RelSpec(r2) # RelSpec(r)
                   /\ res.prevTo = before

\* C33: after updateToOneRelationship(from, rel, to) with a non-null key the node has
\* exactly one relationship of that type, to the requested target and with exactly
\* the requested properties, whatever existed before; with a null key it has none;
\* prevTo is a relationship that existed before, or key null when there was none.
C33_ToOneLeavesExactlyTheRequested ==
    \A relType \in HelperRelTypes : \A to \in HelperSpecs \cup {KeyNull} :
        LET res == updateToOneRelationship(graph, "gotg", relType, to)
            before == HelperMatch(graph, "gotg", relType)
            after == HelperMatch(res.g, "gotg", relType)
        IN  res.error = "none"
                => /\ IF to.key = NULL THEN after = {}
                      ELSE Cardinality(after) = 1 /\ \A r \in after : RelSpec(r) = to
                   /\ \A prevTo \in res.prevTo :
                        IF before = {} THEN prevTo = KeyNull
                        ELSE \E r \in before : prevTo = RelSpec(r)

\* C34: updateToOneRelationship never changes the properties of an existing
\* relationship in place (a relationship to the same target with other properties is
\* deleted and a new one created), so the trigger's preventRelChanges does not reject
\* the Action.
C34_ToOneNeverChangesInPlace ==
    \A relType \in HelperRelTypes : \A to \in HelperSpecs \cup {KeyNull} :
        LET res == updateToOneRelationship(graph, "gotg", relType, to)
        IN  res.error = "none"
                => /\ \A r \in graph.rels : \A r2 \in res.g.rels :
                            r2.id = r.id => r2.props = r.props
                   /\ ~TrigPreventRelChanges(graph, res.g)


\* the same where at most one relationship to the requested target existed before:
\* this much holds
C33_HoldsWithoutDuplicates ==
    \A relType \in HelperRelTypes : \A to \in HelperSpecs \cup {KeyNull} :
        LET res == updateToOneRelationship(graph, "gotg", relType, to)
            before == HelperMatch(graph, "gotg", relType)
            after == HelperMatch(res.g, "gotg", relType)
        IN  (res.error = "none" /\ Cardinality({r \in before : r.to = to.key}) <= 1)
                => /\ IF to.key = NULL THEN after = {}
                      ELSE Cardinality(after) = 1 /\ \A r \in after : RelSpec(r) = to
                   /\ \A prevTo \in res.prevTo :
                        IF before = {} THEN prevTo = KeyNull
                        ELSE \E r \in before : prevTo = RelSpec(r)


\* the tests run so far
TestsRun == SubSeq(last.tests, 1, pending.done)

\* C40: in the test harness the after hooks run after every test, including one
\* whose body throws: afterEach of every enclosing context has run once per completed
\* test, and afterAll of a context has run exactly once when the last of its
\* registered tests has completed, and not before.
C40_AfterHooksRunAfterEveryTest ==
    \A c \in Contexts :
        /\ last.afterEach[c] = last.completedTests[c]
        /\ last.afterAll[c] =
                IF /\ waitingTests(last.tests, c) > 0
                   /\ last.completedTests[c] = waitingTests(last.tests, c)
                THEN 1 ELSE 0

\* the same for a context in which no body has thrown so far: this much holds
C40_HoldsWhileNoBodyThrows ==
    \A c \in Contexts :
        (\A i \in 1..Len(TestsRun) : c \in InHooks(TestsRun[i]) => ~TestsRun[i].throws)
            => /\ last.afterEach[c] = last.completedTests[c]
               /\ last.afterAll[c] =
                    IF /\ waitingTests(last.tests, c) > 0
                       /\ last.completedTests[c] = waitingTests(last.tests, c)
                    THEN 1 ELSE 0

\* what the wrapper does: the afterEach hooks of a context have run once for every
\* test of the context whose body returned, and for no other
C40_AfterEachOnlyAfterReturningBodies ==
    \A c \in Contexts :
        last.afterEach[c] =
            Cardinality({i \in 1..Len(TestsRun) :
                            c \in InHooks(TestsRun[i]) /\ ~TestsRun[i].throws})

=============================================================================
